---- MODULE Spec2Model ----
(***************************************************************************)
(* Receipt upload pipeline of receipt-lens: ReceiptService                 *)
(* (backend/receipts/service.py), the analyzer factory, the vision         *)
(* backends and the local PaddleOCR parser.                                *)
(*                                                                         *)
(* Money is counted in cents (integers).  A text line is a sequence of     *)
(* space-separated tokens; a token is a word, an integer or a decimal      *)
(* number.  The regular expressions of the parsers are evaluated on the    *)
(* tokens.                                                                 *)
(***************************************************************************)
EXTENDS Integers, Sequences, FiniteSets, TLC

(***************************************************************************)
(* Bounds of the model.                                                    *)
(***************************************************************************)
\* seconds datetime.now() can advance by while the requests run
MaxClock == 1

(***************************************************************************)
(* Exceptions, and what a call returns to its caller: an exception class,  *)
(* its message and, for an HTTPException, the status code and the          *)
(* exception whose str() its detail embeds.                                *)
(***************************************************************************)
Error(kind, msg) == [kind |-> kind, status |-> 0, msg |-> msg, cause |-> <<>>]

HTTPException(status, msg, cause) ==
    [kind |-> "HTTPException", status |-> status, msg |-> msg, cause |-> cause]

Ok == [kind |-> "ok", status |-> 201, msg |-> "", cause |-> <<>>]

\* what analyze_receipt gives: an analysis, or the exception it raises
Success(analysis) == [ok |-> TRUE, analysis |-> <<analysis>>, error |-> <<>>]
Failure(e) == [ok |-> FALSE, analysis |-> <<>>, error |-> <<e>>]

(***************************************************************************)
(* Dates.  A date text is the triple of numbers of "YYYY-MM-DD"; a date is *)
(* a record of year, month and day.                                        *)
(***************************************************************************)
\* date.today()
Today == [year |-> 2024, month |-> 6, day |-> 1]

\* date.isoformat / strftime('%Y-%m-%d')
Isoformat(d) == <<d.year, d.month, d.day>>

IsLeap(y) == (y % 4 = 0 /\ y % 100 # 0) \/ y % 400 = 0

DaysIn(y, m) ==
    IF m = 2 THEN (IF IsLeap(y) THEN 29 ELSE 28)
    ELSE IF m \in {4, 6, 9, 11} THEN 30 ELSE 31

\* datetime.strptime(text, '%Y-%m-%d').date(): the date, or <<>> for ValueError
Strptime(text) ==
    IF /\ text[1] \in 1..9999
       /\ text[2] \in 1..12
       /\ text[3] \in 1..DaysIn(text[1], text[2])
    THEN << [year |-> text[1], month |-> text[2], day |-> text[3]] >>
    ELSE <<>>

\* ClaudeAnalysisResponse.validate_date_format: TRUE when it raises
ValidateDateFormat(text) == Strptime(text) = <<>>

\* the service's conversion of analysis.purchase_date: strptime, else today
ServiceDate(text) ==
    IF Strptime(text) # <<>> THEN Strptime(text)[1] ELSE Today

(***************************************************************************)
(* Tokens and lines.                                                       *)
(***************************************************************************)
Word(s) == [t |-> "word", s |-> s, ip |-> 0, fp |-> 0, nd |-> 0]
Num(n) == [t |-> "int", s |-> "", ip |-> n, fp |-> 0, nd |-> 0]
\* ip "," fp, with nd fractional digits
Dec(ip, fp, nd) == [t |-> "dec", s |-> "", ip |-> ip, fp |-> fp, nd |-> nd]

\* What the string operations of the parsers see of each word of the
\* vocabulary: its length, its .title() form, the keywords that are
\* substrings of its lower-case form (kws) and those it ends with (ends).
\* "EUR" stands for the one-character euro sign.
WordInfo(w) ==
    CASE w = "MERCADONA" -> [len |-> 9, title |-> "Mercadona", kws |-> {}, ends |-> {}]
      [] w = "PAN"       -> [len |-> 3, title |-> "Pan", kws |-> {}, ends |-> {}]
      [] w = "LECHE"     -> [len |-> 5, title |-> "Leche", kws |-> {}, ends |-> {}]
      [] w = "CERVEZA"   -> [len |-> 7, title |-> "Cerveza", kws |-> {}, ends |-> {}]
      [] w = "TOTAL"     -> [len |-> 5, title |-> "Total", kws |-> {"total"}, ends |-> {"total"}]
      [] w = "SUBTOTAL"  -> [len |-> 8, title |-> "Subtotal", kws |-> {"total"}, ends |-> {"total"}]
      [] w = "TICKET"    -> [len |-> 6, title |-> "Ticket", kws |-> {"ticket"}, ends |-> {}]
      [] w = "EUR"       -> [len |-> 1, title |-> "EUR", kws |-> {}, ends |-> {}]
      [] OTHER           -> [len |-> 4, title |-> w, kws |-> {}, ends |-> {}]

Digits(n) == IF n < 10 THEN 1 ELSE IF n < 100 THEN 2 ELSE 3

\* len() of a token's text
TokLen(tok) ==
    CASE tok.t = "word" -> WordInfo(tok.s).len
      [] tok.t = "int"  -> Digits(tok.ip)
      [] tok.t = "dec"  -> Digits(tok.ip) + 1 + tok.nd

RECURSIVE SumLen(_)
SumLen(toks) == IF toks = <<>> THEN 0 ELSE TokLen(Head(toks)) + SumLen(Tail(toks))

\* len() of the tokens joined by single spaces
TextLen(toks) == IF toks = <<>> THEN 0 ELSE SumLen(toks) + Len(toks) - 1

\* keyword in text.lower()
HasKw(toks, kw) ==
    \E i \in 1..Len(toks) : toks[i].t = "word" /\ kw \in WordInfo(toks[i].s).kws

\* str.title() of a text
Title(toks) ==
    [i \in 1..Len(toks) |->
        IF toks[i].t = "word" THEN Word(WordInfo(toks[i].s).title) ELSE toks[i]]

\* float() of the text a decimal pattern with two fractional digits matched
\* on a token, in cents: "3,705" gives 3.70
Cents2(tok) ==
    tok.ip * 100 + (IF tok.nd = 2 THEN tok.fp ELSE tok.fp \div 10)

(***************************************************************************)
(* PaddleOCRReceiptAnalyzer: the local OCR parser.  An OCR line is          *)
(* [toks, conf], conf in percent.                                          *)
(***************************************************************************)
StoreConfidence == 70
ItemConfidence == 60

DefaultStoreName == <<Word("Supermercado"), Word("Desconocido")>>

RECURSIVE FirstStoreLine(_, _)
FirstStoreLine(texts, i) ==
    IF i > Len(texts) \/ i > 3 THEN DefaultStoreName
    ELSE IF texts[i].conf > StoreConfidence /\ TextLen(texts[i].toks) > 3
         THEN Title(texts[i].toks)
         ELSE FirstStoreLine(texts, i + 1)

ExtractStoreName(texts) == FirstStoreLine(texts, 1)

TotalKeywords == <<"total", "importe", "suma">>
HeaderKeywords == {"total", "suma", "importe", "ticket", "factura"}

IsEuro(tok) == tok.t = "word" /\ tok.s = "EUR"

\* where the number of  kw[:\s]*€?\s*(\d+[,\.]\d{2})  starts when the keyword
\* ends token i, 0 when the pattern does not match there
TotalNumberAt(toks, i, kw) ==
    LET j == IF i + 1 <= Len(toks) /\ IsEuro(toks[i + 1]) THEN i + 2 ELSE i + 1
    IN  IF /\ toks[i].t = "word"
           /\ kw \in WordInfo(toks[i].s).ends
           /\ j <= Len(toks)
           /\ toks[j].t = "dec"
           /\ toks[j].nd >= 2
        THEN j ELSE 0

\* re.search(pattern, text_lower): the leftmost match, as the matched amount
\* in cents, or -1
SearchTotal(toks, kw) ==
    LET hits == {i \in 1..Len(toks) : TotalNumberAt(toks, i, kw) > 0}
    IN  IF hits = {} THEN -1
        ELSE LET i == CHOOSE h \in hits : \A g \in hits : h <= g
             IN  Cents2(toks[TotalNumberAt(toks, i, kw)])

\* the inner loop over total_patterns, left at the first pattern that matches
RECURSIVE LineTotal(_, _)
LineTotal(toks, p) ==
    IF p > Len(TotalKeywords) THEN -1
    ELSE IF SearchTotal(toks, TotalKeywords[p]) >= 0
         THEN SearchTotal(toks, TotalKeywords[p])
         ELSE LineTotal(toks, p + 1)

\* first pass: the outer loop runs over every line, so a later matching
\* line overwrites total_amount
RECURSIVE FindTotal(_, _, _)
FindTotal(texts, i, total) ==
    IF i > Len(texts) THEN total
    ELSE FindTotal(texts, i + 1,
                   IF LineTotal(texts[i].toks, 1) >= 0
                   THEN LineTotal(texts[i].toks, 1) ELSE total)

\* price_pattern (\d+[,\.]\d{2})\s*€?$ : index of the price token, or 0
PriceAt(toks) ==
    LET n == Len(toks)
        k == IF n >= 1 /\ IsEuro(toks[n]) THEN n - 1 ELSE n
    IN  IF k >= 1 /\ toks[k].t = "dec" /\ toks[k].nd = 2 THEN k ELSE 0

IsDigitText(toks) == Len(toks) = 1 /\ toks[1].t = "int"

\* round(total_price / quantity, 2), in cents
UnitPrice(total_price, quantity) ==
    IF quantity > 0 THEN (2 * total_price + quantity) \div (2 * quantity)
    ELSE total_price

\* variant: the confidence of the line is not looked at
LineItemAnyConfidence(line) ==
    LET toks == line.toks
        k == PriceAt(toks)
        name == Title(SubSeq(toks, 1, k - 1))
        hasQty == Len(name) >= 2 /\ name[1].t = "int"
        quantity == IF hasQty THEN name[1].ip ELSE 1
        total_price == Cents2(toks[k])
    IN  IF \E kw \in HeaderKeywords : HasKw(toks, kw) THEN <<>>
        ELSE IF ~(k > 0) THEN <<>>
        ELSE IF TextLen(SubSeq(toks, 1, k - 1)) < 3
                \/ IsDigitText(SubSeq(toks, 1, k - 1)) THEN <<>>
        ELSE << [product_name |-> IF hasQty THEN Tail(name) ELSE name,
                 quantity |-> quantity,
                 unit_price |-> UnitPrice(total_price, quantity),
                 total_price |-> total_price] >>

\* the item a line yields, as a sequence of zero or one items
LineItem(line) ==
    LET toks == line.toks
        k == PriceAt(toks)
        name == Title(SubSeq(toks, 1, k - 1))
        hasQty == Len(name) >= 2 /\ name[1].t = "int"
        quantity == IF hasQty THEN name[1].ip ELSE 1
        total_price == Cents2(toks[k])
    IN  IF \E kw \in HeaderKeywords : HasKw(toks, kw) THEN <<>>
        ELSE IF ~(k > 0 /\ line.conf > ItemConfidence) THEN <<>>
        ELSE IF TextLen(SubSeq(toks, 1, k - 1)) < 3
                \/ IsDigitText(SubSeq(toks, 1, k - 1)) THEN <<>>
        ELSE << [product_name |-> IF hasQty THEN Tail(name) ELSE name,
                 quantity |-> quantity,
                 unit_price |-> UnitPrice(total_price, quantity),
                 total_price |-> total_price] >>

RECURSIVE ExtractItems(_, _)
ExtractItems(texts, i) ==
    IF i > Len(texts) THEN <<>>
    ELSE LineItem(texts[i]) \o ExtractItems(texts, i + 1)

RECURSIVE SumTotalPrice(_)
SumTotalPrice(items) ==
    IF items = <<>> THEN 0
    ELSE Head(items).total_price + SumTotalPrice(Tail(items))

GenericItem(total) ==
    [product_name |-> <<Word("Compra"), Word("general")>>, quantity |-> 1,
     unit_price |-> total, total_price |-> total]

ExtractItemsAndTotal(texts) ==
    LET found == FindTotal(texts, 1, 0)
        items == ExtractItems(texts, 1)
        total == IF found = 0 /\ items # <<>> THEN SumTotalPrice(items) ELSE found
    IN  [items |-> IF items = <<>> /\ total > 0 THEN <<GenericItem(total)>> ELSE items,
         total_amount |-> total]

PaddleError(msg) == Error("PaddleOCRAnalyzerError", msg)

\* PaddleOCRReceiptAnalyzer.analyze_receipt on the OCR result of an image
\* whose file exists or not
PaddleAnalyze(texts, fileExists) ==
    LET r == ExtractItemsAndTotal(texts)
    IN  IF ~fileExists THEN Failure(PaddleError("Image file not found"))
        ELSE IF texts = <<>> THEN Failure(PaddleError("No text detected in image"))
        ELSE IF r.items = <<>>
        THEN Failure(PaddleError("Could not extract any items from receipt"))
        ELSE Success([store_name |-> ExtractStoreName(texts),
                      purchase_date |-> Isoformat(Today),
                      items |-> r.items,
                      total_amount |-> IF r.total_amount <= 0
                                       THEN SumTotalPrice(r.items)
                                       ELSE r.total_amount])

(***************************************************************************)
(* The remote text backends (Google Vision, OCR.space): a reply text is a  *)
(* sequence of lines, each a sequence of tokens.                           *)
(***************************************************************************)
UnknownStore == <<Word("Unknown"), Word("Store")>>

\* [line.strip() for line in text.split('\n') if line.strip()]
NonEmptyLines(text) == SelectSeq(text, LAMBDA l : l # <<>>)

\* float() of a decimal token with one or two fractional digits, in cents
DecValue(tok) == tok.ip * 100 + (IF tok.nd = 1 THEN tok.fp * 10 ELSE tok.fp)

\* re.findall(r'\d+[.,]\d{2}', line)[-1] as cents, or -1 when nothing matches
LastNumber2(toks) ==
    LET hits == {i \in 1..Len(toks) : toks[i].t = "dec" /\ toks[i].nd >= 2}
    IN  IF hits = {} THEN -1
        ELSE Cents2(toks[CHOOSE h \in hits : \A g \in hits : g <= h])

\* re.findall(r'\d+[.,]\d+', line)[-1] as cents, or -1 when nothing matches
LastNumber(toks) ==
    LET hits == {i \in 1..Len(toks) : toks[i].t = "dec"}
    IN  IF hits = {} THEN -1
        ELSE DecValue(toks[CHOOSE h \in hits : \A g \in hits : g <= h])

OCRSpaceKeywords == {"total", "suma", "importe", "pagar"}
GoogleKeywords == {"total", "suma", "importe", "amount", "sum", "balance", "subtotal"}

\* the loop over the lines that stops at the first keyword line holding a number
RECURSIVE OCRSpaceTotal(_, _)
OCRSpaceTotal(lines, i) ==
    IF i > Len(lines) THEN 0
    ELSE IF (\E kw \in OCRSpaceKeywords : HasKw(lines[i], kw))
            /\ LastNumber2(lines[i]) >= 0
         THEN LastNumber2(lines[i])
         ELSE OCRSpaceTotal(lines, i + 1)

RECURSIVE GoogleTotal(_, _)
GoogleTotal(lines, i) ==
    IF i > Len(lines) THEN 0
    ELSE IF (\E kw \in GoogleKeywords : HasKw(lines[i], kw))
            /\ LastNumber(lines[i]) >= 0
         THEN LastNumber(lines[i])
         ELSE GoogleTotal(lines, i + 1)

\* a date-shaped substring \d{1,2}[/-]\d{1,2}[/-]\d{2,4}: day, month, the
\* year as written and the two separators ("//", "--" or "/-")
DateTok(day, month, year, seps) ==
    [t |-> "date", s |-> seps, ip |-> day, fp |-> month, nd |-> year]

\* the digits of the year as written
YearDigits(year) == IF year < 100 THEN 2 ELSE IF year < 1000 THEN 3 ELSE 4

\* ['%d/%m/%Y', '%d-%m-%Y', '%d/%m/%y', '%d-%m-%y']
DateFormats ==
    << [seps |-> "//", ydigits |-> 4], [seps |-> "--", ydigits |-> 4],
       [seps |-> "//", ydigits |-> 2], [seps |-> "--", ydigits |-> 2] >>

\* the loop over the formats: the first that parses gives the date
RECURSIVE TryFormats(_, _)
TryFormats(tok, k) ==
    IF k > Len(DateFormats) THEN <<>>
    ELSE LET fmt == DateFormats[k]
             year == IF fmt.ydigits = 4 THEN tok.nd
                     ELSE IF tok.nd <= 68 THEN 2000 + tok.nd
                     ELSE 1900 + tok.nd
             parsed == Strptime(<<year, tok.fp, tok.ip>>)
         IN  IF /\ tok.s = fmt.seps
                /\ YearDigits(tok.nd) = fmt.ydigits
                /\ parsed # <<>>
             THEN parsed
             ELSE TryFormats(tok, k + 1)

\* re.search(date_pattern, line): the first date-shaped token, or 0
DateAt(toks) ==
    LET hits == {i \in 1..Len(toks) : toks[i].t = "date"}
    IN  IF hits = {} THEN 0 ELSE CHOOSE h \in hits : \A g \in hits : h <= g

\* the loop over the lines that looks for the date: it is left at the first
\* line holding a date-shaped substring, parsed or not
RECURSIVE RemoteDate(_, _)
RemoteDate(lines, i) ==
    IF i > Len(lines) THEN Isoformat(Today)
    ELSE IF DateAt(lines[i]) > 0
         THEN LET parsed == TryFormats(lines[i][DateAt(lines[i])], 1)
              IN  IF parsed # <<>> THEN Isoformat(parsed[1])
                  ELSE Isoformat(Today)
         ELSE RemoteDate(lines, i + 1)

CatchAllItem(total) ==
    [product_name |-> <<Word("Items"), Word("from"), Word("receipt")>>,
     quantity |-> 1, unit_price |-> total, total_price |-> total]

\* OCRSpaceAnalyzer._parse_receipt_text
OCRSpaceParse(text) ==
    LET lines == NonEmptyLines(text)
        total == OCRSpaceTotal(lines, 1)
    IN  [store_name |-> IF lines # <<>> THEN lines[1] ELSE UnknownStore,
         purchase_date |-> RemoteDate(lines, 1),
         items |-> IF total > 0 THEN <<CatchAllItem(total)>>
                   ELSE << [product_name |-> <<Word("Unknown"), Word("items")>>,
                            quantity |-> 1, unit_price |-> 0, total_price |-> 0] >>,
         total_amount |-> total]

\* GoogleVisionAnalyzer._parse_receipt_text
GoogleParse(text) ==
    LET lines == NonEmptyLines(text)
        total == GoogleTotal(lines, 1)
    IN  [store_name |-> IF lines # <<>> THEN lines[1] ELSE UnknownStore,
         purchase_date |-> RemoteDate(lines, 1),
         items |-> IF total > 0 THEN <<CatchAllItem(total)>>
                   ELSE << [product_name |-> <<Word("Unable"), Word("to"), Word("parse")>>,
                            quantity |-> 1, unit_price |-> 1, total_price |-> 1] >>,
         total_amount |-> IF total > 0 THEN total ELSE 1]

(***************************************************************************)
(* validate_analysis.                                                      *)
(***************************************************************************)
Abs(x) == IF x < 0 THEN -x ELSE x

\* variant: a difference above 0.10 is an error, not a warning
ValidateAnalysisStrict(analysis) ==
    LET difference == Abs(SumTotalPrice(analysis.items) - analysis.total_amount)
    IN  IF difference > 10 \/ analysis.store_name = <<>> \/ analysis.items = <<>>
           \/ analysis.total_amount <= 0
        THEN [raised |-> TRUE, msg |-> "Total amount mismatch", warned |-> TRUE]
        ELSE [raised |-> FALSE, msg |-> "", warned |-> FALSE]

\* VisionAnalyzer.validate_analysis: [raised, msg, warned]; the difference is
\* compared with 0.10, that is 10 cents
ValidateAnalysis(analysis) ==
    LET difference == Abs(SumTotalPrice(analysis.items) - analysis.total_amount)
        warned == difference > 10
    IN  IF analysis.store_name = <<>>
        THEN [raised |-> TRUE, msg |-> "Store name is required", warned |-> warned]
        ELSE IF analysis.items = <<>>
        THEN [raised |-> TRUE, msg |-> "At least one item is required", warned |-> warned]
        ELSE IF analysis.total_amount <= 0
        THEN [raised |-> TRUE, msg |-> "Total amount must be positive", warned |-> warned]
        ELSE [raised |-> FALSE, msg |-> "", warned |-> warned]

\* ClaudeReceiptAnalyzer.validate_analysis: the same checks
ClaudeValidateAnalysis(analysis) ==
    LET difference == Abs(SumTotalPrice(analysis.items) - analysis.total_amount)
        warned == difference > 10
    IN  IF analysis.store_name = <<>>
        THEN [raised |-> TRUE, msg |-> "Store name is required", warned |-> warned]
        ELSE IF analysis.items = <<>>
        THEN [raised |-> TRUE, msg |-> "At least one item is required", warned |-> warned]
        ELSE IF analysis.total_amount <= 0
        THEN [raised |-> TRUE, msg |-> "Total amount must be positive", warned |-> warned]
        ELSE [raised |-> FALSE, msg |-> "", warned |-> warned]

(***************************************************************************)
(* What the environment can hand to the pipeline.                          *)
(***************************************************************************)
Line(toks, conf) == [toks |-> toks, conf |-> conf]

\* The photographed receipts: what the local OCR reads on each image, line
\* by line with its confidence.  An upload's content is an index into
\* Images; equal contents have equal SHA-256 hashes.
Images ==
    << <<>>,
       << Line(<<Word("MERCADONA")>>, 95),
          Line(<<Word("PAN"), Dec(1, 20, 2)>>, 90),
          Line(<<Word("TOTAL"), Dec(1, 20, 2)>>, 90) >>,
       << Line(<<Word("MERCADONA")>>, 95),
          Line(<<Word("PAN"), Dec(0, 0, 2)>>, 90) >>,
       << Line(<<Word("MERCADONA")>>, 95),
          Line(<<Word("CERVEZA"), Dec(2, 50, 2), Word("EUR")>>, 50) >>,
       << Line(<<Word("MERCADONA")>>, 50),
          Line(<<Num(2), Word("LECHE"), Dec(1, 80, 2)>>, 80) >> >>

Contents == 1..Len(Images)

\* texts a remote text-detection service can return
RemoteTexts ==
    { << <<Word("MERCADONA")>>, <<Word("TOTAL"), Dec(1, 20, 2)>> >>,
      << <<Word("MERCADONA")>>, <<>>, <<Word("PAN"), Dec(1, 20, 2)>> >> }

\* JSON objects a generative backend can return, as parsed data
ClaudeData ==
    { [store_name |-> <<Word("Test"), Word("Store")>>,
       purchase_date |-> <<2024, 1, 15>>,
       items |-> << [product_name |-> <<Word("Pan")>>, quantity |-> 1,
                     unit_price |-> 120, total_price |-> 120] >>,
       total_amount |-> 120],
      [store_name |-> <<Word("Test"), Word("Store")>>,
       purchase_date |-> <<0, 0, 0>>,
       items |-> << [product_name |-> <<Word("Pan")>>, quantity |-> 1,
                     unit_price |-> 120, total_price |-> 120] >>,
       total_amount |-> 120],
      [store_name |-> <<Word("Test"), Word("Store")>>,
       purchase_date |-> <<2024, 1, 15>>,
       items |-> << [product_name |-> <<Word("Pan")>>, quantity |-> 1,
                     unit_price |-> 120, total_price |-> 120] >>,
       total_amount |-> 100],
      [store_name |-> <<Word("Test"), Word("Store")>>,
       purchase_date |-> <<2024, 1, 15>>,
       items |-> <<>>,
       total_amount |-> 0] }

Users == {1, 2}

\* UploadFile.filename: missing, or a name with an extension
Filenames == {"", "r.jpg", "r.pdf", "r.gif"}

Suffix(filename) ==
    CASE filename = "r.jpg" -> "jpg"
      [] filename = "r.pdf" -> "pdf"
      [] filename = "r.gif" -> "gif"
      [] OTHER -> ""

\* settings.allowed_extensions
ALLOWED_EXTENSIONS == {"jpg", "jpeg", "png", "pdf"}

\* media_type_map of _encode_image
EncodableExtensions == {"jpg", "jpeg", "png", "webp", "gif"}

Providers == {"claude", "google_vision", "ocrspace"}

\* settings: the provider, whether ANTHROPIC_API_KEY is set (not None),
\* whether GOOGLE_VISION_CREDENTIALS is a non-empty path and whether
\* OCRSPACE_API_KEY is non-empty (its default is "helloworld")
Settings ==
    [vision_provider : Providers,
     anthropic_api_key : BOOLEAN,
     google_vision_credentials : BOOLEAN,
     ocrspace_api_key : {TRUE}]

(***************************************************************************)
(* State.                                                                  *)
(***************************************************************************)
VARIABLES
    settings,             \* backend.config.settings
    PADDLEOCR_AVAILABLE,  \* paddleocr_analyzer.PADDLEOCR_AVAILABLE
    analyzers,            \* AnalyzerFactory._analyzers: the cached keys
    files,                \* the paths that exist under settings.upload_dir
    db,                   \* the committed rows of the receipts table
    next_id,              \* the next primary key of receipts
    now,                  \* datetime.now(), in seconds
    call,                 \* a single call of a pure function: [fn, arg, ret]
    trace,                \* the calls made on AnalyzerFactory, in order
    reviews,              \* the rows of the receipt_review_data table
    system_config,        \* the value of the system_config row
                          \* review_data_retention_days, <<>> without row
    req                   \* the upload requests, each a call of
                          \* upload_and_analyze_receipt

vars == <<settings, PADDLEOCR_AVAILABLE, analyzers, files, db, next_id, now,
          call, trace, reviews, system_config, req>>

\* what no step of an upload request changes
config == <<settings, PADDLEOCR_AVAILABLE, call, trace, reviews,
           system_config>>

NoCall == [fn |-> "", arg |-> <<>>, ret |-> <<>>]

IdleRequest ==
    [pc |-> "idle", user_id |-> 0, filename |-> "", content |-> 0,
     small |-> TRUE, file_path |-> <<>>, use_claude |-> FALSE,
     analysis |-> <<>>, validated |-> FALSE, calls |-> <<>>,
     primary_error |-> <<>>, failed_at |-> "", fallback_error |-> <<>>,
     hung |-> FALSE, receipt_id |-> 0,
     result |-> <<>>]

(***************************************************************************)
(* Errors and the except clauses of upload_and_analyze_receipt.            *)
(***************************************************************************)
\* variant: the except clauses re-raise what they caught
SurfacedUnwrapped(e) == e

\* what the except clauses turn an exception raised inside the try into
Surfaced(e) ==
    IF e.kind = "HTTPException" THEN e
    ELSE IF e.kind \in {"VisionAnalyzerError", "PaddleOCRAnalyzerError"}
    THEN HTTPException(422, "Could not analyze receipt", <<e>>)
    ELSE HTTPException(500, "Failed to process receipt", <<e>>)

\* variant: the except clauses raise without removing the uploaded file
RaiseKeepingFile(r, rq, e) ==
    /\ files' = files
    /\ req' = [req EXCEPT ![r] = [rq EXCEPT !.pc = "done",
                                            !.result = <<Surfaced(e)>>]]

\* each except clause: rollback, remove the uploaded file if it exists, raise
RaiseFromTry(r, rq, e) ==
    /\ files' = files \ {rq.file_path[1]}
    /\ req' = [req EXCEPT ![r] = [rq EXCEPT !.pc = "done",
                                            !.result = <<Surfaced(e)>>]]

(***************************************************************************)
(* analyze_receipt of the three primary backends: the outcomes the image   *)
(* file and the remote service allow.                                      *)
(***************************************************************************)
ClaudeError(msg) == Error("ClaudeAnalyzerError", msg)
VisionError(msg) == Error("VisionAnalyzerError", msg)

\* ClaudeReceiptAnalyzer._parse_claude_response on a JSON object: the
\* ClaudeAnalysisResponse is built, and a validation error leaves as
\* ClaudeAnalyzerError
ParseClaudeResponse(data) ==
    IF ValidateDateFormat(data.purchase_date)
    THEN Failure([ClaudeError("Failed to parse response") EXCEPT
                     !.cause = <<Error("ValidationError",
                                       "Date must be in YYYY-MM-DD format")>>])
    ELSE Success(data)

\* ClaudeReceiptAnalyzer.analyze_receipt: _encode_image, the API call,
\* _parse_claude_response; every exception leaves as ClaudeAnalyzerError
ClaudeAnalyze(fileExists, ext) ==
    IF ~fileExists THEN {Failure(ClaudeError("Image file not found"))}
    ELSE IF ext \notin EncodableExtensions
    THEN {Failure(ClaudeError("Unsupported image format"))}
    ELSE {Failure(ClaudeError("Claude API error")),
          Failure(ClaudeError("No JSON object found"))}
         \cup {ParseClaudeResponse(d) : d \in ClaudeData}

\* GoogleVisionAnalyzer.analyze_receipt
GoogleAnalyze(fileExists) ==
    IF ~fileExists THEN {Failure(VisionError("Image file not found"))}
    ELSE {Failure(VisionError("Google Vision API error")),
          Failure(VisionError("No text detected in image"))}
         \cup {Success(GoogleParse(t)) : t \in RemoteTexts}

\* OCRSpaceAnalyzer.analyze_receipt
OCRSpaceAnalyze(fileExists) ==
    IF ~fileExists THEN {Failure(VisionError("Analysis failed"))}
    ELSE {Failure(VisionError("OCR.space API returned status")),
          Failure(VisionError("No text detected in image"))}
         \cup {Success(OCRSpaceParse(t)) : t \in RemoteTexts}

AnalyzeReceipt(provider, fileExists, ext) ==
    CASE provider = "claude" -> ClaudeAnalyze(fileExists, ext)
      [] provider = "google_vision" -> GoogleAnalyze(fileExists)
      [] provider = "ocrspace" -> OCRSpaceAnalyze(fileExists)

\* analyzer.validate_analysis(analysis) of the analyzer's class, as the
\* exception it raises (<<>> when it returns True)
AnalyzerValidate(provider, analysis) ==
    IF provider = "claude"
    THEN IF ClaudeValidateAnalysis(analysis).raised
         THEN <<ClaudeError(ClaudeValidateAnalysis(analysis).msg)>> ELSE <<>>
    ELSE IF ValidateAnalysis(analysis).raised
         THEN <<VisionError(ValidateAnalysis(analysis).msg)>> ELSE <<>>

\* str.lower() on the provider names used here
Lower(name) == IF name = "CLAUDE" THEN "claude" ELSE name

\* an optional string argument that is neither None nor ""
Truthy(opt) == opt # <<>> /\ opt[1] # ""

\* variant: a cache key without the provider
CacheKeyOfCredential(provider, api_key) ==
    <<"", IF Truthy(api_key) THEN api_key[1] ELSE "default">>

\* cache_key = f"{provider}:{api_key or 'default'}"
CacheKey(provider, api_key) ==
    <<provider, IF Truthy(api_key) THEN api_key[1] ELSE "default">>

\* variant: a lookup that never finds the key
CacheMiss(cache, key) == {}

\* the entries of _analyzers under the key
CacheHit(cache, key) == {e \in cache : e.key = key}

\* The constructor the provider selects, as the message of the exception
\* it raises ("" when it returns).  accepted: whether the client library
\* accepts what it is given (the credentials file exists and is valid; the
\* Anthropic client takes a missing key).
Construct(provider, api_key, cfg, accepted) ==
    CASE provider = "claude" ->
           IF Truthy(api_key) \/ cfg.anthropic_api_key \/ accepted THEN ""
           ELSE "Anthropic client"
      [] provider = "google_vision" ->
           IF ~(Truthy(api_key) \/ cfg.google_vision_credentials)
           THEN "Google Vision credentials not configured"
           ELSE IF accepted THEN "" ELSE "Google Vision credentials file"
      [] provider = "ocrspace" -> ""
      [] OTHER -> "Unknown vision provider"

\* the credential the new instance holds
Credential(provider, api_key) ==
    IF Truthy(api_key) THEN api_key[1] ELSE "settings"

\* AnalyzerFactory.create_analyzer(provider, api_key): the cache after the
\* call, the instance it returns or the exception it raises, and whether a
\* constructor ran to its end.  serial: the identity of a new object.
create_analyzer(cache, cfg, provider, api_key, accepted, serial) ==
    LET p == Lower(IF Truthy(provider) THEN provider[1] ELSE cfg.vision_provider)
        cache_key == CacheKey(p, api_key)
        hit == CacheHit(cache, cache_key)
        raised == Construct(p, api_key, cfg, accepted)
        analyzer == [id |-> serial, class |-> p,
                     api_key |-> Credential(p, api_key)]
    IN  IF hit # {}
        THEN [cache |-> cache, inst |-> <<(CHOOSE e \in hit : TRUE).inst>>,
              error |-> <<>>, constructed |-> FALSE]
        ELSE IF raised # ""
        THEN [cache |-> cache, inst |-> <<>>,
              error |-> <<VisionError("Failed to create analyzer")>>,
              constructed |-> FALSE]
        ELSE [cache |-> cache \cup {[key |-> cache_key, inst |-> analyzer]},
              inst |-> <<analyzer>>, error |-> <<>>, constructed |-> TRUE]

\* get_analyzer(): create_analyzer() with the default arguments, the
\* configured credential being one the client library accepts; the cache
\* after the call, and the exception it raises (<<>> when it returns)
CreateAnalyzer(cache, cfg) ==
    LET made == create_analyzer(cache, cfg, <<>>, <<>>, TRUE,
                                Cardinality(cache) + 1)
    IN  [cache |-> made.cache, error |-> made.error]

(***************************************************************************)
(* ReceiptService.upload_and_analyze_receipt, one action per stretch of    *)
(* code between two awaits or branches.                                    *)
(***************************************************************************)
FilePath(user_id, ts, hash, ext) ==
    [user_id |-> user_id, ts |-> ts, hash |-> hash, ext |-> ext]

\* variant: only the presence of a file name is checked
ValidateFileNameOnly(filename) ==
    IF filename = "" THEN <<HTTPException(400, "No file provided", <<>>)>>
    ELSE <<>>

\* _validate_file: the exception it raises, <<>> when the file passes
ValidateFile(filename) ==
    IF filename = "" THEN <<HTTPException(400, "No file provided", <<>>)>>
    ELSE IF Suffix(filename) \notin ALLOWED_EXTENSIONS
    THEN <<HTTPException(400, "File type not allowed", <<>>)>>
    ELSE <<>>

\* variant: the query filters on the hash alone
CheckDuplicateAnyUser(rows, user_id, file_hash) ==
    {rec \in rows : rec.image_hash = file_hash}

\* _check_duplicate
CheckDuplicate(rows, user_id, file_hash) ==
    {rec \in rows : rec.user_id = user_id /\ rec.image_hash = file_hash}

\* a request arrives: _validate_file, then the call waits for file.read()
UploadRequest(r) ==
    /\ r \in DOMAIN req
    /\ req[r].pc = "idle"
    /\ \E u \in Users, f \in Filenames, c \in Contents, small \in BOOLEAN :
         LET rq == [IdleRequest EXCEPT !.user_id = u, !.filename = f,
                                       !.content = c, !.small = small]
         IN  req' = [req EXCEPT ![r] =
                       IF ValidateFile(f) # <<>>
                       THEN [rq EXCEPT !.pc = "done", !.result = ValidateFile(f)]
                       ELSE [rq EXCEPT !.pc = "read"]]
    /\ UNCHANGED <<config, analyzers, files, db, next_id, now>>

\* _save_upload_file after the read: size check, hash, path, write
SaveUploadFile(r) ==
    /\ r \in DOMAIN req
    /\ req[r].pc = "read"
    /\ IF ~req[r].small
       THEN /\ req' = [req EXCEPT ![r].pc = "done",
                                  ![r].result = <<HTTPException(413, "File too large", <<>>)>>]
            /\ UNCHANGED <<files, now>>
       ELSE \E ts \in now..MaxClock :
              LET path == FilePath(req[r].user_id, ts, req[r].content,
                                   Suffix(req[r].filename))
              IN  /\ now' = ts
                  /\ files' = files \cup {path}
                  /\ req' = [req EXCEPT ![r].pc = "saved",
                                        ![r].file_path = <<path>>]
    /\ UNCHANGED <<config, analyzers, db, next_id>>

\* the duplicate check and the choice of the analyzer
DuplicateCheck(r) ==
    /\ r \in DOMAIN req
    /\ req[r].pc = "saved"
    /\ IF CheckDuplicate(db, req[r].user_id, req[r].content) # {}
       THEN IF req[r].file_path[1] \in files
            THEN RaiseFromTry(r, req[r],
                     HTTPException(409, "This receipt has already been uploaded", <<>>))
            ELSE RaiseFromTry(r, req[r], Error("FileNotFoundError", "os.remove"))
       ELSE /\ req' = [req EXCEPT
                         ![r].use_claude = settings.anthropic_api_key,
                         ![r].pc = IF settings.anthropic_api_key
                                   THEN "primary" ELSE "fallback"]
            /\ UNCHANGED files
    /\ UNCHANGED <<config, analyzers, db, next_id, now>>

\* the except clause around the primary analysis: fall back when PaddleOCR
\* is available, else re-raise; other exception classes pass through
PrimaryFailed(r, e, stage) ==
    LET rq == [req[r] EXCEPT !.primary_error = <<e>>, !.failed_at = stage]
    IN  IF e.kind = "VisionAnalyzerError" /\ PADDLEOCR_AVAILABLE
        THEN /\ req' = [req EXCEPT ![r] = [rq EXCEPT !.use_claude = FALSE,
                                                     !.pc = "fallback"]]
             /\ UNCHANGED files
        ELSE RaiseFromTry(r, rq, e)

\* get_analyzer() and the call of analyzer.analyze_receipt(file_path)
StartPrimary(r) ==
    /\ r \in DOMAIN req
    /\ req[r].pc = "primary"
    /\ LET made == CreateAnalyzer(analyzers, settings)
       IN  /\ analyzers' = made.cache
           /\ IF made.error # <<>>
              THEN PrimaryFailed(r, made.error[1], "get_analyzer")
              ELSE /\ req' = [req EXCEPT
                                ![r].calls = Append(@, settings.vision_provider),
                                ![r].pc = "await_primary"]
                   /\ UNCHANGED files
    /\ UNCHANGED <<config, db, next_id, now>>

\* the primary backend returns or raises; validate_analysis on its result
PrimaryReturns(r) ==
    /\ r \in DOMAIN req
    /\ req[r].pc = "await_primary"
    /\ ~req[r].hung
    /\ \E out \in AnalyzeReceipt(settings.vision_provider,
                                 req[r].file_path[1] \in files,
                                 Suffix(req[r].filename)) :
         IF ~out.ok THEN PrimaryFailed(r, out.error[1], "analyze_receipt")
         ELSE IF AnalyzerValidate(settings.vision_provider, out.analysis[1]) # <<>>
         THEN PrimaryFailed(r, AnalyzerValidate(settings.vision_provider,
                                                out.analysis[1])[1],
                            "validate_analysis")
         ELSE /\ req' = [req EXCEPT ![r].analysis = out.analysis,
                                    ![r].validated = TRUE,
                                    ![r].pc = "persist"]
              /\ UNCHANGED files
    /\ UNCHANGED <<config, analyzers, db, next_id, now>>

\* the remote service never answers: no backend call sets a timeout
BackendHangs(r) ==
    /\ r \in DOMAIN req
    /\ req[r].pc = "await_primary"
    /\ ~req[r].hung
    /\ req' = [req EXCEPT ![r].hung = TRUE]
    /\ UNCHANGED <<config, analyzers, files, db, next_id, now>>

\* the PaddleOCR branch: availability check and the call of analyze_receipt
StartFallback(r) ==
    /\ r \in DOMAIN req
    /\ req[r].pc = "fallback"
    /\ IF ~PADDLEOCR_AVAILABLE
       THEN RaiseFromTry(r, req[r],
                HTTPException(503, "No analysis service available", <<>>))
       ELSE /\ req' = [req EXCEPT ![r].calls = Append(@, "paddleocr"),
                                  ![r].pc = "await_fallback"]
            /\ UNCHANGED files
    /\ UNCHANGED <<config, analyzers, db, next_id, now>>

\* variant: a failed PaddleOCR analysis is attempted again
FallbackRetried(r, e) ==
    /\ req' = [req EXCEPT ![r].fallback_error = <<e>>, ![r].pc = "fallback"]
    /\ UNCHANGED files

\* PaddleOCRAnalyzerError leaves the try: no second attempt
FallbackFailed(r, e) ==
    RaiseFromTry(r, [req[r] EXCEPT !.fallback_error = <<e>>], e)

\* what PaddleOCR makes of each image, by the file being on disk or not
PaddleResult ==
    [c \in Contents |-> [exists \in BOOLEAN |-> PaddleAnalyze(Images[c], exists)]]

\* PaddleOCR returns or raises
FallbackReturns(r) ==
    /\ r \in DOMAIN req
    /\ req[r].pc = "await_fallback"
    /\ LET out == PaddleResult[req[r].content][req[r].file_path[1] \in files]
       IN  IF ~out.ok THEN FallbackFailed(r, out.error[1])
           ELSE /\ req' = [req EXCEPT ![r].analysis = out.analysis,
                                      ![r].pc = "persist"]
                /\ UNCHANGED files
    /\ UNCHANGED <<config, analyzers, db, next_id, now>>

\* the row db.add(receipt) ... db.commit() writes
ReceiptRow(id, rq) ==
    [id |-> id, user_id |-> rq.user_id,
     store_name |-> rq.analysis[1].store_name,
     purchase_date |-> ServiceDate(rq.analysis[1].purchase_date),
     total_amount |-> rq.analysis[1].total_amount,
     items |-> rq.analysis[1].items,
     image_path |-> rq.file_path[1],
     image_hash |-> rq.content]

\* receipt and items are added and committed, or the database fails: at the
\* flush or the commit, or at db.refresh(receipt) after the commit
Persist(r) ==
    /\ r \in DOMAIN req
    /\ req[r].pc = "persist"
    /\ \/ /\ db' = db \cup {ReceiptRow(next_id, req[r])}
          /\ next_id' = next_id + 1
          /\ req' = [req EXCEPT ![r].pc = "done", ![r].receipt_id = next_id,
                                ![r].result = <<Ok>>]
          /\ UNCHANGED files
       \/ /\ RaiseFromTry(r, req[r], Error("SQLAlchemyError", "commit"))
          /\ UNCHANGED <<db, next_id>>
       \/ /\ db' = db \cup {ReceiptRow(next_id, req[r])}
          /\ next_id' = next_id + 1
          /\ RaiseFromTry(r, [req[r] EXCEPT !.receipt_id = next_id],
                          Error("SQLAlchemyError", "refresh"))
    /\ UNCHANGED <<config, analyzers, now>>

\* The request is cancelled while the call is suspended: at file.read(), or
\* inside a backend whose analyze_receipt really awaits (of the three
\* providers only OCR.space, through aiohttp; the Claude, Google and
\* PaddleOCR calls are synchronous inside their coroutine).  CancelledError
\* is no Exception, so no except clause runs.
Cancel(r) ==
    /\ r \in DOMAIN req
    /\ \/ req[r].pc = "read"
       \/ req[r].pc = "await_primary" /\ settings.vision_provider = "ocrspace"
    /\ req' = [req EXCEPT ![r].pc = "done",
                          ![r].result = <<Error("CancelledError", "")>>]
    /\ UNCHANGED <<config, analyzers, files, db, next_id, now>>

\* The row and the file an earlier upload of image 2 as r.jpg by user 1
\* left, analysed by PaddleOCR at second 0.
EarlierUpload ==
    ReceiptRow(1, [IdleRequest EXCEPT
                     !.user_id = 1, !.content = 2,
                     !.file_path = <<FilePath(1, 0, 2, "jpg")>>,
                     !.analysis = PaddleAnalyze(Images[2], TRUE).analysis])

RequestIds == {1, 2}

\* The service starts with an empty receipts table; the requests of a
\* behaviour are served on an empty table or after the earlier upload.
InitState(rids) ==
    /\ settings \in Settings
    /\ PADDLEOCR_AVAILABLE \in BOOLEAN
    /\ analyzers = {}
    /\ db \in {{}, {EarlierUpload}}
    /\ files = {row.image_path : row \in db}
    /\ next_id = Cardinality(db) + 1
    /\ now = 0
    /\ call = NoCall
    /\ trace = <<>>
    /\ reviews = {}
    /\ system_config = <<>>
    /\ req = [r \in rids |-> IdleRequest]

\* one upload request
Init == InitState({1})

Step(r) ==
    \/ SaveUploadFile(r)
    \/ DuplicateCheck(r)
    \/ StartPrimary(r)
    \/ PrimaryReturns(r)
    \/ StartFallback(r)
    \/ FallbackReturns(r)
    \/ Persist(r)

Next ==
    \/ \E r \in RequestIds : UploadRequest(r)
    \/ \E r \in RequestIds : SaveUploadFile(r)
    \/ \E r \in RequestIds : DuplicateCheck(r)
    \/ \E r \in RequestIds : StartPrimary(r)
    \/ \E r \in RequestIds : PrimaryReturns(r)
    \/ \E r \in RequestIds : BackendHangs(r)
    \/ \E r \in RequestIds : StartFallback(r)
    \/ \E r \in RequestIds : FallbackReturns(r)
    \/ \E r \in RequestIds : Persist(r)
    \/ \E r \in RequestIds : Cancel(r)

Spec == Init /\ [][Next]_vars

\* the event loop resumes every call that can go on
FairSpec == Spec /\ \A r \in RequestIds : WF_vars(Step(r))

(***************************************************************************)
(* validate_analysis as a function: one call on any analysis of the        *)
(* bounded set below.                                                      *)
(***************************************************************************)
\* items an analysis holds at most
MaxItems == 2

ItemPrices == {0, 5, 30, 50}
TotalAmounts == {0 - 20, 0, 1, 40, 50, 60, 100}

PricedItem(p) ==
    [product_name |-> <<Word("Pan")>>, quantity |-> 1, unit_price |-> p,
     total_price |-> p]

ItemLists ==
    UNION {[1..n -> {PricedItem(p) : p \in ItemPrices}] : n \in 0..MaxItems}

Analyses ==
    [store_name : {<<>>, <<Word("Mercadona")>>},
     items : ItemLists,
     total_amount : TotalAmounts]

\* the state of a service that serves no upload
Quiet ==
    /\ settings = [vision_provider |-> "claude", anthropic_api_key |-> TRUE,
                   google_vision_credentials |-> FALSE,
                   ocrspace_api_key |-> TRUE]
    /\ PADDLEOCR_AVAILABLE = FALSE
    /\ analyzers = {}
    /\ db = {}
    /\ files = {}
    /\ next_id = 1
    /\ now = 0
    /\ trace = <<>>
    /\ reviews = {}
    /\ system_config = <<>>
    /\ req = [r \in {} |-> IdleRequest]

ValidateInit ==
    /\ Quiet
    /\ call \in [fn : {"VisionAnalyzer.validate_analysis",
                       "ClaudeReceiptAnalyzer.validate_analysis"},
                 arg : {<<a>> : a \in Analyses},
                 ret : {<<>>}]

\* the call returns or raises
ValidateCall ==
    /\ call.fn \in {"VisionAnalyzer.validate_analysis",
                    "ClaudeReceiptAnalyzer.validate_analysis"}
    /\ call.ret = <<>>
    /\ call' = [call EXCEPT !.ret =
                  IF call.fn = "VisionAnalyzer.validate_analysis"
                  THEN <<ValidateAnalysis(call.arg[1])>>
                  ELSE <<ClaudeValidateAnalysis(call.arg[1])>>]
    /\ UNCHANGED <<settings, PADDLEOCR_AVAILABLE, analyzers, files, db,
                   next_id, now, trace, reviews, system_config,
                   req>>

ValidateNext == ValidateCall

ValidateSpec == ValidateInit /\ [][ValidateNext]_vars

(***************************************************************************)
(* AnalyzerFactory on its own: any sequence of create_analyzer and         *)
(* clear_cache calls.  The function has no await, so the calls of          *)
(* concurrent requests run one after the other in some order.              *)
(***************************************************************************)
\* calls made on the factory in one behaviour
MaxCalls == 3

ProviderArgs ==
    {<<>>, <<"claude">>, <<"CLAUDE">>, <<"google_vision">>, <<"ocrspace">>,
     <<"bogus">>}

ApiKeyArgs == {<<>>, <<"k1">>, <<"default">>}

\* each constructor reads its own credential only, so the three are
\* configured together or not at all
FactorySettings ==
    {[vision_provider |-> p, anthropic_api_key |-> c,
      google_vision_credentials |-> c, ocrspace_api_key |-> c] :
        p \in {"claude", "google_vision"}, c \in BOOLEAN}

FactoryInit ==
    /\ settings \in FactorySettings
    /\ PADDLEOCR_AVAILABLE = FALSE
    /\ analyzers = {}
    /\ db = {}
    /\ files = {}
    /\ next_id = 1
    /\ now = 0
    /\ call = NoCall
    /\ trace = <<>>
    /\ reviews = {}
    /\ system_config = <<>>
    /\ req = [r \in {} |-> IdleRequest]

\* the objects constructed so far
Constructed(tr) == {i \in 1..Len(tr) : tr[i].constructed}

\* one call of AnalyzerFactory.create_analyzer(provider, api_key)
CreateAnalyzerCall(provider, api_key) ==
    /\ Len(trace) < MaxCalls
    /\ \E accepted \in BOOLEAN :
         LET made == create_analyzer(analyzers, settings, provider, api_key,
                                     accepted,
                                     Cardinality(Constructed(trace)) + 1)
         IN  /\ analyzers' = made.cache
             /\ trace' = Append(trace,
                    [fn |-> "create_analyzer", provider |-> provider,
                     api_key |-> api_key, inst |-> made.inst,
                     error |-> made.error, constructed |-> made.constructed,
                     cached |-> made.cache # analyzers])
    /\ UNCHANGED <<settings, PADDLEOCR_AVAILABLE, files, db, next_id, now,
                   call, reviews, system_config, req>>

\* AnalyzerFactory.clear_cache()
ClearCache ==
    /\ Len(trace) < MaxCalls
    /\ analyzers' = {}
    /\ trace' = Append(trace,
           [fn |-> "clear_cache", provider |-> <<>>, api_key |-> <<>>,
            inst |-> <<>>, error |-> <<>>, constructed |-> FALSE,
            cached |-> analyzers # {}])
    /\ UNCHANGED <<settings, PADDLEOCR_AVAILABLE, files, db, next_id, now,
                   call, reviews, system_config, req>>

FactoryNext ==
    \/ \E provider \in ProviderArgs, api_key \in ApiKeyArgs :
          CreateAnalyzerCall(provider, api_key)
    \/ ClearCache

FactorySpec == FactoryInit /\ [][FactoryNext]_vars

\* call i of the trace returned an instance
Created(i) == trace[i].fn = "create_analyzer" /\ trace[i].inst # <<>>

\* the provider call i named, the configured one when it named none
ProviderOf(i) ==
    Lower(IF Truthy(trace[i].provider) THEN trace[i].provider[1]
          ELSE settings.vision_provider)

\* no clear_cache between calls i and j
NoClearBetween(i, j) ==
    \A k \in 1..Len(trace) : (i < k /\ k < j) => trace[k].fn # "clear_cache"

\* C11: with no clear_cache in between, two create_analyzer calls with the
\* same provider and the same credential return the identical instance, and
\* two calls with different providers and the same credential return
\* distinct instances.
C11_SameKeySameInstance ==
    \A i, j \in 1..Len(trace) :
        (i < j /\ Created(i) /\ Created(j) /\ NoClearBetween(i, j)
         /\ trace[i].api_key = trace[j].api_key)
        => /\ ProviderOf(i) = ProviderOf(j)
              => trace[i].inst[1].id = trace[j].inst[1].id
           /\ ProviderOf(i) # ProviderOf(j)
              => trace[i].inst[1].id # trace[j].inst[1].id

C11_Witness ==
    \E i, j, k \in 1..Len(trace) :
        /\ i < j /\ j < k
        /\ Created(i) /\ Created(j) /\ Created(k)
        /\ trace[i].api_key = <<"k1">> /\ trace[j].api_key = <<"k1">>
        /\ trace[k].api_key = <<"k1">>
        /\ ProviderOf(i) = "claude" /\ ProviderOf(j) = "ocrspace"
        /\ ProviderOf(k) = "claude"
        /\ trace[i].inst = trace[k].inst

\* the credential the provider of call i needs is given neither by the
\* argument nor by the settings
CredentialMissing(i) ==
    /\ ~Truthy(trace[i].api_key)
    /\ \/ ProviderOf(i) = "claude" /\ ~settings.anthropic_api_key
       \/ ProviderOf(i) = "google_vision" /\ ~settings.google_vision_credentials
       \/ ProviderOf(i) = "ocrspace" /\ ~settings.ocrspace_api_key

\* C12: a create_analyzer call for an unknown provider, or for a provider
\* whose required credential is missing, raises during the call, returns no
\* instance and leaves the cache unchanged.
C12_BadConfigurationRaises ==
    \A i \in 1..Len(trace) :
        (/\ trace[i].fn = "create_analyzer"
         /\ ProviderOf(i) \notin Providers \/ CredentialMissing(i))
        => /\ trace[i].error # <<>>
           /\ trace[i].inst = <<>>
           /\ ~trace[i].cached

MaxSide == 4
\* the margin argument
MaxMargin == 2

Max(a, b) == IF a >= b THEN a ELSE b
Min(a, b) == IF a <= b THEN a ELSE b

\* variant: the margin is added without looking at the image's edges
CropRectangleUnclamped(width, height, box, margin) ==
    [x1 |-> box.x - margin, y1 |-> box.y - margin,
     x2 |-> box.x + box.w + margin, y2 |-> box.y + box.h + margin]

\* x1, y1, x2, y2 of image[y1:y2, x1:x2]
CropRectangle(width, height, box, margin) ==
    [x1 |-> Max(0, box.x - margin),
     y1 |-> Max(0, box.y - margin),
     x2 |-> Min(width, box.x + box.w + margin),
     y2 |-> Min(height, box.y + box.h + margin)]

\* detect_and_crop_receipt on what OpenCV reports: image is <<>> when
\* cv2.imread returns None, contour is <<>> when no contour is found and
\* otherwise the largest contour's area and bounding rectangle
DetectAndCrop(image, contour, margin) ==
    IF image = <<>>
    THEN [raised |-> TRUE, cropped |-> FALSE, rect |-> <<>>]
    ELSE LET width == image[1].w
             height == image[1].h
             whole == [x1 |-> 0, y1 |-> 0, x2 |-> width, y2 |-> height]
         IN  IF contour = <<>>
             THEN [raised |-> FALSE, cropped |-> FALSE, rect |-> <<whole>>]
             ELSE IF 10 * contour[1].area < width * height
             THEN [raised |-> FALSE, cropped |-> FALSE, rect |-> <<whole>>]
             ELSE [raised |-> FALSE, cropped |-> TRUE,
                   rect |-> <<CropRectangle(width, height, contour[1],
                                            margin)>>]

\* the bounding rectangles that lie inside an image, each with the area of
\* a contour it can bound
Contours(width, height) ==
    {[x |-> x, y |-> y, w |-> w, h |-> h, area |-> a] :
        x \in 0..(width - 1), y \in 0..(height - 1),
        w \in 1..width, h \in 1..height, a \in 0..(MaxSide * MaxSide)}

InsideContours(width, height) ==
    {c \in Contours(width, height) :
        /\ c.x + c.w <= width
        /\ c.y + c.h <= height
        /\ c.area \in {0, (c.w - 1) * (c.h - 1)}}

CropCalls ==
    {[fn |-> "detect_and_crop_receipt", arg |-> <<<<>>, <<>>, m>>, ret |-> <<>>] :
        m \in 0..MaxMargin}
    \cup UNION {
        {[fn |-> "detect_and_crop_receipt",
          arg |-> <<<<[w |-> width, h |-> height]>>, c, m>>, ret |-> <<>>] :
            c \in {<<>>} \cup {<<b>> : b \in InsideContours(width, height)},
            m \in 0..MaxMargin} :
        width \in 1..MaxSide, height \in 1..MaxSide}

CropInit == Quiet /\ call \in CropCalls

\* the call returns or raises
CropCall ==
    /\ call.fn = "detect_and_crop_receipt"
    /\ call.ret = <<>>
    /\ call' = [call EXCEPT !.ret =
                  <<DetectAndCrop(call.arg[1], call.arg[2], call.arg[3])>>]
    /\ UNCHANGED <<settings, PADDLEOCR_AVAILABLE, analyzers, files, db,
                   next_id, now, trace, reviews, system_config,
                   req>>

CropNext == CropCall

CropSpec == CropInit /\ [][CropNext]_vars

\* C14: for a bounding box (x, y, w, h) inside an image of W x H pixels and
\* a margin >= 0 the crop rectangle has 0 <= x1 <= x, 0 <= y1 <= y,
\* x+w <= x2 <= W, y+h <= y2 <= H, and lies exactly margin pixels outside
\* the box on each side that is not clamped at an image edge.
C14_CropWithinImage ==
    (call.fn = "detect_and_crop_receipt" /\ call.ret # <<>>
     /\ call.ret[1].cropped)
    => LET img == call.arg[1][1]
           box == call.arg[2][1]
           margin == call.arg[3]
           r == call.ret[1].rect[1]
       IN  /\ 0 <= r.x1 /\ r.x1 <= box.x
           /\ 0 <= r.y1 /\ r.y1 <= box.y
           /\ box.x + box.w <= r.x2 /\ r.x2 <= img.w
           /\ box.y + box.h <= r.y2 /\ r.y2 <= img.h
           /\ r.x1 = box.x - margin \/ (r.x1 = 0 /\ box.x < margin)
           /\ r.y1 = box.y - margin \/ (r.y1 = 0 /\ box.y < margin)
           /\ \/ r.x2 = box.x + box.w + margin
              \/ (r.x2 = img.w /\ img.w < box.x + box.w + margin)
           /\ \/ r.y2 = box.y + box.h + margin
              \/ (r.y2 = img.h /\ img.h < box.y + box.h + margin)

C14_Witness ==
    /\ call.fn = "detect_and_crop_receipt" /\ call.ret # <<>>
    /\ call.ret[1].cropped
    /\ call.arg[3] = 2
    /\ call.ret[1].rect[1].x1 = 0 /\ call.arg[2][1].x = 1
    /\ call.ret[1].rect[1].y1 = call.arg[2][1].y - 2
    /\ call.ret[1].rect[1].y2 = call.arg[1][1].h

\* images passed to one merge
MaxImages == 3
\* the spacing argument
MaxSpacing == 2

\* img.shape[:2] of the images that are merged
Shapes ==
    {[h |-> 1, w |-> 1], [h |-> 2, w |-> 3], [h |-> 3, w |-> 2],
     [h |-> 2, w |-> 4]}

\* the lists of up to MaxImages arrays; id tells one array from another
ImageLists ==
    UNION {{[i \in 1..n |-> [id |-> i, h |-> f[i].h, w |-> f[i].w]] :
               f \in [1..n -> Shapes]} : n \in 0..MaxImages}

RECURSIVE MaxWidth(_)
MaxWidth(images) ==
    IF images = <<>> THEN 0
    ELSE Max(Head(images).w, MaxWidth(Tail(images)))

RECURSIVE SumHeights(_)
SumHeights(images) ==
    IF images = <<>> THEN 0
    ELSE Head(images).h + SumHeights(Tail(images))

\* variant: the loop advances by the spacing alone
RECURSIVE PlaceWithoutHeight(_, _, _, _, _)
PlaceWithoutHeight(images, i, current_y, max_width, spacing) ==
    IF i > Len(images) THEN <<>>
    ELSE << [id |-> images[i].id, y |-> current_y,
             x |-> (max_width - images[i].w) \div 2,
             h |-> images[i].h, w |-> images[i].w] >>
         \o PlaceWithoutHeight(images, i + 1, current_y + spacing,
                               max_width, spacing)

\* the loop that places the images: where each one lands on the canvas
RECURSIVE Place(_, _, _, _, _)
Place(images, i, current_y, max_width, spacing) ==
    IF i > Len(images) THEN <<>>
    ELSE << [id |-> images[i].id, y |-> current_y,
             x |-> (max_width - images[i].w) \div 2,
             h |-> images[i].h, w |-> images[i].w] >>
         \o Place(images, i + 1, current_y + images[i].h + spacing,
                  max_width, spacing)

\* variant: the spacing is also added below the last image
MergeWithTrailingSpace(images, spacing) ==
    IF images = <<>> THEN [raised |-> TRUE, image |-> <<>>]
    ELSE [raised |-> FALSE,
          image |-> << [id |-> 0, w |-> MaxWidth(images),
                        h |-> SumHeights(images) + spacing * Len(images),
                        placed |-> Place(images, 1, 0, MaxWidth(images),
                                         spacing)] >>]

\* merge_images_vertically: the ValueError, the one image given, or a new
\* canvas (id 0) with the images placed on it
MergeImagesVertically(images, spacing) ==
    IF images = <<>> THEN [raised |-> TRUE, image |-> <<>>]
    ELSE IF Len(images) = 1
    THEN [raised |-> FALSE,
          image |-> << [id |-> images[1].id, w |-> images[1].w,
                        h |-> images[1].h, placed |-> <<>>] >>]
    ELSE LET max_width == MaxWidth(images)
             total_height == SumHeights(images) + spacing * (Len(images) - 1)
         IN  [raised |-> FALSE,
              image |-> << [id |-> 0, w |-> max_width, h |-> total_height,
                            placed |-> Place(images, 1, 0, max_width,
                                             spacing)] >>]

MergeInit ==
    /\ Quiet
    /\ call \in [fn : {"merge_images_vertically"},
                 arg : ImageLists \X (0..MaxSpacing),
                 ret : {<<>>}]

\* the call returns or raises
MergeCall ==
    /\ call.fn = "merge_images_vertically"
    /\ call.ret = <<>>
    /\ call' = [call EXCEPT !.ret =
                  <<MergeImagesVertically(call.arg[1], call.arg[2])>>]
    /\ UNCHANGED <<settings, PADDLEOCR_AVAILABLE, analyzers, files, db,
                   next_id, now, trace, reviews, system_config,
                   req>>

MergeNext == MergeCall

MergeSpec == MergeInit /\ [][MergeNext]_vars

\* C15: for a non-empty list of n images and a spacing >= 0 the merged
\* image is max(widths) wide and sum(heights) + spacing*(n-1) high; for
\* n = 1 the result is the input image itself; for an empty list the call
\* raises and returns nothing.
C15_MergedSize ==
    (call.fn = "merge_images_vertically" /\ call.ret # <<>>)
    => LET images == call.arg[1]
           spacing == call.arg[2]
           out == call.ret[1]
       IN  /\ out.raised <=> images = <<>>
           /\ out.raised => out.image = <<>>
           /\ ~out.raised
              => /\ out.image[1].w = MaxWidth(images)
                 /\ out.image[1].h
                      = SumHeights(images) + spacing * (Len(images) - 1)
           /\ Len(images) = 1
              => /\ out.image[1].id = images[1].id
                 /\ out.image[1].w = images[1].w
                 /\ out.image[1].h = images[1].h
           /\ Len(images) > 1 => out.image[1].id = 0

C15_Witness ==
    /\ call.fn = "merge_images_vertically" /\ call.ret # <<>>
    /\ Len(call.arg[1]) = 3
    /\ call.arg[2] = 2
    /\ call.ret[1].image[1].h = 10
    /\ call.ret[1].image[1].w = 4

(***************************************************************************)
(* PaddleOCRReceiptAnalyzer.analyze_receipt as a function of the OCR       *)
(* result, the list of (text, confidence) lines.                           *)
(***************************************************************************)
\* lines of one OCR result
MaxLines == 3
\* the number a line can start with
MaxQuantity == 2

OCRLines ==
    {Line(<<Num(q), Word("LECHE"), Dec(1, 80, 2)>>, 90) : q \in 0..MaxQuantity}
    \cup {Line(<<Word("PAN"), Dec(1, 20, 2)>>, c) : c \in {50, 60, 90}}
    \cup {Line(<<Word("TOTAL"), Dec(3, 0, 2)>>, 90),
          Line(<<Num(123), Dec(2, 50, 2)>>, 90),
          Line(<<Word("MERCADONA")>>, 90)}

OCRResults == UNION {[1..n -> OCRLines] : n \in 0..MaxLines}

PaddleInit ==
    /\ Quiet
    /\ call \in [fn : {"PaddleOCRReceiptAnalyzer.analyze_receipt"},
                 arg : {<<texts>> : texts \in OCRResults},
                 ret : {<<>>}]

\* the call returns or raises
PaddleCall ==
    /\ call.fn = "PaddleOCRReceiptAnalyzer.analyze_receipt"
    /\ call.ret = <<>>
    /\ call' = [call EXCEPT !.ret = <<PaddleAnalyze(call.arg[1], TRUE)>>]
    /\ UNCHANGED <<settings, PADDLEOCR_AVAILABLE, analyzers, files, db,
                   next_id, now, trace, reviews, system_config,
                   req>>

PaddleNext == PaddleCall

PaddleSpec == PaddleInit /\ [][PaddleNext]_vars

\* C16: every line item of a receipt the PaddleOCR parser produces has
\* quantity > 0 and unit_price = round(total_price / quantity, 2), whatever
\* the (text, confidence) lines are.
C16_QuantityPositive ==
    (call.fn = "PaddleOCRReceiptAnalyzer.analyze_receipt" /\ call.ret # <<>>
     /\ call.ret[1].ok)
    => \A i \in 1..Len(call.ret[1].analysis[1].items) :
         LET item == call.ret[1].analysis[1].items[i]
         IN  /\ item.quantity > 0
             /\ item.unit_price
                  = (2 * item.total_price + item.quantity)
                      \div (2 * item.quantity)

(***************************************************************************)
(* Properties of the upload pipeline.                                      *)
(***************************************************************************)
Done(r) == r \in DOMAIN req /\ req[r].pc = "done"

Returned(r) == Done(r) /\ req[r].result[1].kind = "ok"

\* the call ended with the HTTPException of one of its raise statements
RaisedHTTP(r) == Done(r) /\ req[r].result[1].kind = "HTTPException"

Called(r, backend) == \E i \in 1..Len(req[r].calls) : req[r].calls[i] = backend

TimesCalled(r, backend) ==
    Cardinality({i \in 1..Len(req[r].calls) : req[r].calls[i] = backend})

StoredRow(r) == CHOOSE row \in db : row.id = req[r].receipt_id

\* the database accepted the commit and nobody cancelled the request
Undisturbed(r) ==
    /\ req[r].result[1].kind # "CancelledError"
    /\ ~(req[r].result[1].cause # <<>>
         /\ req[r].result[1].cause[1].kind = "SQLAlchemyError")

\* C1: whatever the configured provider, when the primary backend's
\* analyze_receipt raises its analysis error and PaddleOCR is available and
\* analyses the image successfully, the upload returns a receipt whose
\* store name, items and total are PaddleOCR's output.
C1_FallbackOutputStored ==
    \A r \in DOMAIN req :
        (/\ Done(r)
         /\ req[r].failed_at = "analyze_receipt"
         /\ PADDLEOCR_AVAILABLE
         /\ PaddleResult[req[r].content][TRUE].ok
         /\ Undisturbed(r))
        => /\ Returned(r)
           /\ LET out == PaddleResult[req[r].content][TRUE].analysis[1]
              IN  /\ StoredRow(r).store_name = out.store_name
                  /\ StoredRow(r).items = out.items
                  /\ StoredRow(r).total_amount = out.total_amount

\* C2 as claimed: when the primary backend raises an analysis error and
\* PaddleOCR is not available, no fallback is attempted and the caller gets
\* the primary backend's error itself, unchanged.
C2_PrimaryErrorUnchanged ==
    \A r \in DOMAIN req :
        (Done(r) /\ req[r].failed_at = "analyze_receipt" /\ ~PADDLEOCR_AVAILABLE)
        => /\ ~Called(r, "paddleocr")
           /\ req[r].result = req[r].primary_error

\* C2 as amended: when the primary backend raises an analysis error and
\* PaddleOCR is not available, no fallback is attempted and the caller gets
\* an HTTPException that embeds the primary backend's error: status 422 for
\* a VisionAnalyzerError, 500 for any other class.
C2_PrimaryErrorWrapped ==
    \A r \in DOMAIN req :
        (Done(r) /\ req[r].failed_at = "analyze_receipt" /\ ~PADDLEOCR_AVAILABLE)
        => /\ ~Called(r, "paddleocr")
           /\ req[r].result[1].kind = "HTTPException"
           /\ req[r].result[1].cause = req[r].primary_error
           /\ req[r].result[1].status =
                IF req[r].primary_error[1].kind = "VisionAnalyzerError"
                THEN 422 ELSE 500

C2_Witness ==
    \E r \in DOMAIN req :
        /\ Done(r) /\ req[r].failed_at = "analyze_receipt" /\ ~PADDLEOCR_AVAILABLE
        /\ req[r].result[1].status = 422
        /\ req[r].calls = <<"ocrspace">>

\* C3: within one request PaddleOCR is invoked at most once, and once its
\* analysis has failed the request has ended in failure with the PaddleOCR
\* call as the last backend call.
C3_FallbackOnceAndTerminal ==
    \A r \in DOMAIN req :
        /\ TimesCalled(r, "paddleocr") <= 1
        /\ req[r].fallback_error # <<>>
           => /\ RaisedHTTP(r)
              /\ req[r].calls[Len(req[r].calls)] = "paddleocr"

C3_Witness ==
    \E r \in DOMAIN req :
        /\ req[r].fallback_error # <<>>
        /\ req[r].calls = <<"google_vision", "paddleocr">>
        /\ Done(r)

\* C4: every analysis result that is persisted and returned has been
\* passed through validate_analysis, whichever backend produced it.
C4_ValidatedBeforeStored ==
    \A r \in DOMAIN req : Returned(r) => req[r].validated

\* C5: every stored receipt has a non-empty store_name, at least one item
\* and total_amount > 0.
C5_StoredReceiptsValid ==
    \A row \in db :
        /\ row.store_name # <<>>
        /\ row.items # <<>>
        /\ row.total_amount > 0

\* C6: validate_analysis (of VisionAnalyzer and of ClaudeReceiptAnalyzer)
\* raises exactly when store_name is empty, items is empty or
\* total_amount <= 0, whatever the difference between the items' sum and the
\* total; it returns True for every other receipt.
C6_ValidateRaisesExactly ==
    call.ret # <<>>
    => (call.ret[1].raised
          <=> \/ call.arg[1].store_name = <<>>
              \/ call.arg[1].items = <<>>
              \/ call.arg[1].total_amount <= 0)

C6_Witness ==
    /\ call.ret # <<>>
    /\ ~call.ret[1].raised
    /\ call.ret[1].warned
    /\ SumTotalPrice(call.arg[1].items) < call.arg[1].total_amount

\* C7: when the call ends by raising an HTTPException after the file was
\* saved, the saved file no longer exists.
C7_FileRemovedOnError ==
    \A r \in DOMAIN req :
        (RaisedHTTP(r) /\ req[r].file_path # <<>>)
        => req[r].file_path[1] \notin files

C7_Witness ==
    \E r \in DOMAIN req :
        /\ RaisedHTTP(r)
        /\ req[r].file_path # <<>>
        /\ req[r].result[1].status = 500
        /\ req[r].result[1].cause[1].kind = "SQLAlchemyError"

\* C8: no exit of the call, cancellation included, leaves the saved file on
\* disk without a stored receipt that references it.
C8_NoOrphanFile ==
    \A r \in DOMAIN req :
        (Done(r) /\ req[r].file_path # <<>> /\ req[r].file_path[1] \in files)
        => \E row \in db : row.image_path = req[r].file_path[1]

\* C9: an input error (file missing, unsupported format) or a configuration
\* error raised while obtaining the primary backend never leads to a call
\* of the fallback backend.
C9_NoFallbackOnInputOrConfigError ==
    \A r \in DOMAIN req :
        (\/ req[r].failed_at = "get_analyzer"
         \/ /\ req[r].primary_error # <<>>
            /\ req[r].primary_error[1].msg \in
                 {"Image file not found", "Unsupported image format"})
        => ~Called(r, "paddleocr")

\* C10: a request never stays for ever in the primary or the fallback
\* analysis stage, also when the backend never answers.
C10_AnalysisStageEnds ==
    \A r \in RequestIds :
        (r \in DOMAIN req /\ req[r].pc \in {"await_primary", "await_fallback"})
        ~> (r \in DOMAIN req
            /\ req[r].pc \notin {"await_primary", "await_fallback"})

(***************************************************************************)
(* Properties of the purchase date.                                        *)
(***************************************************************************)
\* the primary backend's reply carried a purchase_date that is no calendar
\* date in YYYY-MM-DD form
InvalidDateReplied(r) ==
    /\ req[r].primary_error # <<>>
    /\ req[r].primary_error[1].cause # <<>>
    /\ req[r].primary_error[1].cause[1].kind = "ValidationError"

\* C17: when the backend's output carries a purchase_date that is not a
\* valid calendar date in YYYY-MM-DD form, the analysis does not fail: the
\* upload returns a receipt whose purchase_date is today's date.
C17_InvalidDateBecomesToday ==
    \A r \in DOMAIN req :
        (Done(r) /\ InvalidDateReplied(r) /\ Undisturbed(r))
        => /\ Returned(r)
           /\ StoredRow(r).purchase_date = Today

(***************************************************************************)
(* Properties of the duplicate check.                                      *)
(***************************************************************************)
\* the file of request r was saved and its duplicate check has run
Checked(r) == req[r].file_path # <<>> /\ req[r].pc # "saved"

\* another receipt of the same user holds the same image hash
HasDuplicate(r) ==
    \E row \in db : /\ row.id # req[r].receipt_id
                    /\ row.user_id = req[r].user_id
                    /\ row.image_hash = req[r].content

Rejected409(r) == RaisedHTTP(r) /\ req[r].result[1].status = 409

\* C18: duplicate detection is per user: an upload is rejected with 409
\* exactly when a receipt with the same image hash exists for the same user
\* (the same content of another user is no duplicate); the rejected upload
\* creates no receipt and its newly saved file is gone.
C18_DuplicatePerUser ==
    \A r \in DOMAIN req :
        Checked(r) =>
            /\ HasDuplicate(r) <=> Rejected409(r)
            /\ Rejected409(r) =>
                  /\ req[r].receipt_id = 0
                  /\ db = {EarlierUpload}
                  /\ next_id = 2
                  /\ req[r].file_path[1] \notin files

C18_Witness ==
    \E r \in DOMAIN req :
        /\ Rejected409(r)
        /\ req[r].user_id = EarlierUpload.user_id
        /\ req[r].content = EarlierUpload.image_hash
        /\ req[r].file_path # <<>>
        /\ req[r].file_path[1] # EarlierUpload.image_path
        /\ EarlierUpload.image_path \in files

(***************************************************************************)
(* Reading and deleting receipts: get_user_receipts, get_receipt_by_id and *)
(* delete_receipt, between the uploads of several users.                   *)
(***************************************************************************)
MaxReceipts == 2

ReceiptIds == 1..(MaxReceipts + 1)

\* what a call of the three functions gives: the exception it raises and
\* the receipts it returns
Raises(e) == [raised |-> <<e>>, receipts |-> {}]
Returns(rows) == [raised |-> <<>>, receipts |-> rows]

\* variant: the receipt is returned to whoever asks for it
get_receipt_by_id_any_user(rows, receipt_id, user_id) ==
    LET found == {row \in rows : row.id = receipt_id}
    IN  IF found = {}
        THEN Raises(HTTPException(404, "Receipt not found", <<>>))
        ELSE Returns(found)

\* ReceiptService.get_receipt_by_id
get_receipt_by_id(rows, receipt_id, user_id) ==
    LET found == {row \in rows : row.id = receipt_id}
    IN  IF found = {}
        THEN Raises(HTTPException(404, "Receipt not found", <<>>))
        ELSE IF \E row \in found : row.user_id # user_id
        THEN Raises(HTTPException(403, "Access denied to this receipt", <<>>))
        ELSE Returns(found)

\* ReceiptService.get_user_receipts, first page: the rows and the count
get_user_receipts(rows, user_id) ==
    Returns({row \in rows : row.user_id = user_id})

\* the event loop runs another handler only while every upload is suspended
\* in an await or has not started
Suspended == \A r \in DOMAIN req : req[r].pc \in {"idle", "read", "done"}

\* the upload endpoint answers and the next request can arrive
Respond(r) ==
    /\ r \in DOMAIN req
    /\ req[r].pc = "done"
    /\ req' = [req EXCEPT ![r] = IdleRequest]
    /\ UNCHANGED <<config, analyzers, files, db, next_id, now>>

\* an upload of a small JPEG while the table has room for its row
StoreUploadRequest(r) ==
    /\ next_id <= MaxReceipts
    /\ UploadRequest(r)
    /\ req'[r].small
    /\ req'[r].filename = "r.jpg"
    /\ req'[r].content \in {2, 3}

GetUserReceipts(user_id) ==
    /\ Suspended
    /\ call' = [fn |-> "get_user_receipts", arg |-> <<user_id>>,
                ret |-> get_user_receipts(db, user_id)]
    /\ UNCHANGED <<settings, PADDLEOCR_AVAILABLE, trace, reviews, system_config,
                   analyzers,
                   files, db, next_id, now, req>>

GetReceiptById(user_id, receipt_id) ==
    /\ Suspended
    /\ call' = [fn |-> "get_receipt_by_id", arg |-> <<user_id, receipt_id>>,
                ret |-> get_receipt_by_id(db, receipt_id, user_id)]
    /\ UNCHANGED <<settings, PADDLEOCR_AVAILABLE, trace, reviews, system_config,
                   analyzers,
                   files, db, next_id, now, req>>

\* ReceiptService.delete_receipt: the ownership check, the file, the row
DeleteReceipt(user_id, receipt_id) ==
    LET got == get_receipt_by_id(db, receipt_id, user_id)
        done(ret) == call' = [fn |-> "delete_receipt",
                              arg |-> <<user_id, receipt_id>>, ret |-> ret]
    IN  /\ Suspended
        /\ IF got.raised # <<>>
           THEN /\ done(got)
                /\ UNCHANGED <<files, db>>
           ELSE /\ files' = files \ {row.image_path : row \in got.receipts}
                /\ IF \E rv \in reviews : \E row \in got.receipts :
                          rv.receipt_id = row.id
                   THEN /\ done(Raises(Error("IntegrityError",
                                             "receipt_review_data.receipt_id")))
                        /\ UNCHANGED db
                   ELSE /\ done(Returns({}))
                        /\ db' = db \ got.receipts
        /\ UNCHANGED <<settings, PADDLEOCR_AVAILABLE, trace, reviews,
                       system_config,
                       analyzers, next_id, now, req>>

NoResult == [fn |-> "", arg |-> <<>>, ret |-> Returns({})]

\* PaddleOCR alone analyses (no Anthropic key); the receipts table is empty
StoreInit ==
    /\ settings = [vision_provider |-> "claude", anthropic_api_key |-> FALSE,
                   google_vision_credentials |-> FALSE,
                   ocrspace_api_key |-> TRUE]
    /\ PADDLEOCR_AVAILABLE = TRUE
    /\ analyzers = {}
    /\ db = {}
    /\ files = {}
    /\ next_id = 1
    /\ now = 0
    /\ call = NoResult
    /\ trace = <<>>
    /\ reviews = {}
    /\ system_config = <<>>
    /\ req = [r \in {1} |-> IdleRequest]

StoreNext ==
    \/ \E r \in RequestIds : StoreUploadRequest(r)
    \/ \E r \in RequestIds : SaveUploadFile(r)
    \/ \E r \in RequestIds : DuplicateCheck(r)
    \/ \E r \in RequestIds : StartFallback(r)
    \/ \E r \in RequestIds : FallbackReturns(r)
    \/ \E r \in RequestIds : Persist(r)
    \/ \E r \in RequestIds : Respond(r)
    \/ \E u \in Users : GetUserReceipts(u)
    \/ \E u \in Users, id \in ReceiptIds : GetReceiptById(u, id)
    \/ \E u \in Users, id \in ReceiptIds : DeleteReceipt(u, id)

StoreSpec == StoreInit /\ [][StoreNext]_vars

Status(ret) == IF ret.raised = <<>> THEN 200 ELSE ret.raised[1].status

\* C19: get_receipt_by_id and delete_receipt succeed only for the receipt's
\* owner: for a missing receipt they raise 404, for another user's receipt
\* they raise 403, and in both cases the receipts, their items and the image
\* files are left as they were; get_user_receipts returns exactly the
\* caller's receipts.
C19_OwnerOnly ==
    [][call' # call =>
        LET user_id == call'.arg[1]
            ret == call'.ret
        IN  /\ call'.fn \in {"get_receipt_by_id", "delete_receipt"} =>
                 LET found == {row \in db : row.id = call'.arg[2]}
                 IN  /\ found = {} => Status(ret) = 404
                     /\ (found # {} /\ \A row \in found : row.user_id # user_id)
                        => Status(ret) = 403
                     /\ Status(ret) = 200 =>
                          /\ found # {}
                          /\ \A row \in found : row.user_id = user_id
                     /\ Status(ret) \in {403, 404} =>
                          /\ db' = db
                          /\ files' = files
                     /\ call'.fn = "get_receipt_by_id" /\ Status(ret) = 200
                        => ret.receipts = found /\ db' = db /\ files' = files
            /\ call'.fn = "get_user_receipts" =>
                 /\ ret.receipts = {row \in db : row.user_id = user_id}
                 /\ db' = db
                 /\ files' = files
    ]_vars

\* a user was refused the deletion of another user's receipt, which is
\* still there with its image
C19_Witness ==
    /\ call.fn = "delete_receipt"
    /\ Status(call.ret) = 403
    /\ \E row \in db : /\ row.id = call.arg[2]
                       /\ row.user_id # call.arg[1]
                       /\ row.image_path \in files
    /\ \E row \in db : row.user_id = call.arg[1]

(***************************************************************************)
(* The scheduled cleanup of review data: cleanup_old_review_data.  Time is *)
(* counted in days.                                                        *)
(***************************************************************************)
MaxReviews == 2
MaxDay == 2
DefaultRetentionDays == 30

\* int(config.config_value): the number, or <<>> for ValueError
ParseInt(text) ==
    CASE text = "0" -> <<0>>
      [] text = "1" -> <<1>>
      [] text = "2" -> <<2>>
      [] OTHER -> <<>>

ConfigValues == {"", "0", "1", "abc"}

\* get_retention_days
get_retention_days(row) ==
    IF row # <<>> /\ row[1] # ""
    THEN IF ParseInt(row[1]) # <<>> THEN ParseInt(row[1])[1]
         ELSE DefaultRetentionDays
    ELSE DefaultRetentionDays

ReviewRow(id, receipt_id, created_at) ==
    [id |-> id, receipt_id |-> receipt_id, created_at |-> created_at]

\* the days on which a review row was created
Days == 0..MaxDay

\* datetime.utcnow() when the job runs
Times == 0..(MaxDay + 1) \cup {DefaultRetentionDays + d : d \in 0..(MaxDay + 1)}

\* the database operations of the job that can raise
FailurePoints == {"retention", "query", "commit", "verification"}

CleanupResult(success, deleted_count, retention_days, error) ==
    [success |-> success, deleted_count |-> deleted_count,
     retention_days |-> retention_days, error |-> error]

\* the rows of the filter ReceiptReviewData.created_at < cutoff_date
OldReviews(rows, cutoff_date) == {rv \in rows : rv.created_at < cutoff_date}

\* cleanup_old_review_data: the review rows it leaves and what it returns;
\* fail is <<>> or the database operation that raises
cleanup_old_review_data(rows, row, utcnow, fail) ==
    LET retention_days == get_retention_days(row)
        cutoff_date == utcnow - retention_days
        old_reviews == OldReviews(rows, cutoff_date)
        failed(left) == [reviews |-> left,
                         ret |-> CleanupResult(FALSE, 0, 0, fail[1])]
    IN  IF fail # <<>> /\ fail[1] \in {"retention", "query", "commit"}
        THEN failed(rows)
        ELSE IF fail # <<>> /\ fail[1] = "verification" /\ old_reviews # {}
        THEN failed(rows \ old_reviews)
        ELSE [reviews |-> rows \ old_reviews,
              ret |-> CleanupResult(TRUE, Cardinality(old_reviews),
                                    retention_days, "")]

\* a run in which no database operation raises
Cleanup(utcnow) ==
    LET run == cleanup_old_review_data(reviews, system_config, utcnow, <<>>)
    IN  /\ reviews' = run.reviews
        /\ call' = [fn |-> "cleanup_old_review_data", arg |-> <<utcnow>>,
                    ret |-> run.ret]
        /\ UNCHANGED <<settings, PADDLEOCR_AVAILABLE, analyzers, files, db,
                       next_id, now, trace, system_config, req>>

\* a run in which a database operation raises; the verification query runs
\* only after a deletion
CleanupRaises(utcnow, point) ==
    LET run == cleanup_old_review_data(reviews, system_config, utcnow,
                                       <<point>>)
    IN  /\ point = "verification" =>
              OldReviews(reviews,
                         utcnow - get_retention_days(system_config)) # {}
        /\ reviews' = run.reviews
        /\ call' = [fn |-> "cleanup_old_review_data", arg |-> <<utcnow>>,
                    ret |-> run.ret]
        /\ UNCHANGED <<settings, PADDLEOCR_AVAILABLE, analyzers, files, db,
                       next_id, now, trace, system_config, req>>

\* one receipt with up to MaxReviews review rows of any age, and any value
\* of the retention setting
CleanupInit ==
    /\ settings = [vision_provider |-> "claude", anthropic_api_key |-> TRUE,
                   google_vision_credentials |-> FALSE,
                   ocrspace_api_key |-> TRUE]
    /\ PADDLEOCR_AVAILABLE = FALSE
    /\ analyzers = {}
    /\ db = {EarlierUpload}
    /\ files = {EarlierUpload.image_path}
    /\ next_id = 2
    /\ now = 0
    /\ trace = <<>>
    /\ req = [r \in {} |-> IdleRequest]
    /\ call = [fn |-> "", arg |-> <<>>, ret |-> CleanupResult(TRUE, 0, 0, "")]
    /\ system_config \in {<<>>} \cup {<<v>> : v \in ConfigValues}
    /\ \E created \in [1..MaxReviews -> Days \cup {0 - 1}] :
         reviews = {ReviewRow(i, EarlierUpload.id, created[i]) :
                      i \in {j \in 1..MaxReviews : created[j] >= 0}}

CleanupNext ==
    \/ \E utcnow \in Times : Cleanup(utcnow)
    \/ \E utcnow \in Times, point \in FailurePoints : CleanupRaises(utcnow, point)

CleanupSpec == CleanupInit /\ [][CleanupNext]_vars

\* C20: a run of cleanup_old_review_data deletes only review rows created
\* before (now - retention days) and never deletes or modifies a receipt:
\* the receipts and their files are as before, the review rows newer than
\* the cutoff remain, a successful run removes the older ones, and a run
\* that fails deletes no review row.
C20_CleanupOnlyOldReviews ==
    [][call' # call /\ call'.fn = "cleanup_old_review_data" =>
        LET cutoff_date == call'.arg[1] - get_retention_days(system_config)
        IN  /\ db' = db
            /\ files' = files
            /\ reviews' \subseteq reviews
            /\ \A rv \in reviews : rv.created_at >= cutoff_date => rv \in reviews'
            /\ call'.ret.success =>
                 reviews' = {rv \in reviews : rv.created_at >= cutoff_date}
            /\ ~call'.ret.success => reviews' = reviews
    ]_vars

(***************************************************************************)
(* Properties of the order of the backends.                                *)
(***************************************************************************)
\* C21: for every upload that reaches the analysis, the first backend
\* invoked is the backend of settings.vision_provider, whatever the provider;
\* the fallback backend is invoked only after that invocation has failed.
C21_ConfiguredBackendFirst ==
    \A r \in DOMAIN req :
        req[r].calls # <<>> =>
            /\ req[r].calls[1] = settings.vision_provider
            /\ \A i \in 1..Len(req[r].calls) :
                 req[r].calls[i] = "paddleocr" =>
                     i > 1 /\ req[r].primary_error # <<>>

(***************************************************************************)
(* Properties of the placement of merged images.                           *)
(***************************************************************************)
\* C22: for n > 1 images, merge_images_vertically places image i (in input
\* order) at the vertical offset sum of the heights of the images before it
\* plus the spacing times their number, and at the horizontal offset
\* (max_width - width_i) // 2; the placed regions lie inside the canvas, are
\* pairwise disjoint and follow each other top to bottom in input order.
C22_PlacedInOrder ==
    (call.fn = "merge_images_vertically" /\ call.ret # <<>>
     /\ Len(call.arg[1]) > 1)
    => LET images == call.arg[1]
           spacing == call.arg[2]
           canvas == call.ret[1].image[1]
           placed == canvas.placed
       IN  /\ Len(placed) = Len(images)
           /\ \A i \in 1..Len(images) :
                /\ placed[i].id = images[i].id
                /\ placed[i].h = images[i].h /\ placed[i].w = images[i].w
                /\ placed[i].y = SumHeights(SubSeq(images, 1, i - 1))
                                   + (i - 1) * spacing
                /\ placed[i].x = (MaxWidth(images) - images[i].w) \div 2
                /\ placed[i].x >= 0 /\ placed[i].x + placed[i].w <= canvas.w
                /\ placed[i].y >= 0 /\ placed[i].y + placed[i].h <= canvas.h
           /\ \A i, j \in 1..Len(images) :
                i < j => placed[i].y + placed[i].h <= placed[j].y

C22_Witness ==
    /\ call.fn = "merge_images_vertically" /\ call.ret # <<>>
    /\ Len(call.arg[1]) = 3
    /\ call.arg[2] = 2
    /\ call.arg[1][1].w = 4 /\ call.arg[1][3].w = 1
    /\ call.ret[1].image[1].placed[3].x = 1
    /\ call.ret[1].image[1].placed[3].y
         = call.arg[1][1].h + call.arg[1][2].h + 4

(***************************************************************************)
(* The three OCR-driven parsers as functions of the text: the local parser *)
(* on (text, confidence) lines, the remote parsers on the reply text.      *)
(***************************************************************************)
MaxParseLines == 2
ParseConfidence == 90

TotalLines ==
    { <<Word("SUBTOTAL"), Dec(1, 0, 2)>>,
      <<Word("TOTAL"), Dec(1, 20, 2)>>,
      <<Word("TOTAL"), Dec(1, 20, 2), Dec(3, 0, 2)>>,
      <<Word("TOTAL")>>,
      <<Word("PAN"), Dec(1, 20, 2)>>,
      <<Word("MERCADONA")>> }

DateLines ==
    { <<DateTok(31, 2, 2024, "//")>>,
      <<DateTok(15, 1, 2024, "//")>>,
      <<DateTok(15, 1, 24, "--")>> }

Texts(lines) == UNION {[1..n -> lines] : n \in 1..MaxParseLines}

ParseInit ==
    /\ Quiet
    /\ call \in [fn : {"google_vision", "ocrspace"},
                 arg : {<<text>> : text \in Texts(TotalLines \cup DateLines)},
                 ret : {<<>>}]
               \cup [fn : {"paddleocr"},
                     arg : {<<text>> : text \in Texts(TotalLines)},
                     ret : {<<>>}]

\* the parser's result and what validate_analysis says of it
Parsed(fn, text) ==
    LET out == CASE fn = "google_vision" -> Success(GoogleParse(text))
                 [] fn = "ocrspace" -> Success(OCRSpaceParse(text))
                 [] fn = "paddleocr" ->
                      PaddleAnalyze([i \in 1..Len(text) |->
                                       Line(text[i], ParseConfidence)], TRUE)
    IN  [out |-> out,
         invalid |-> IF out.ok THEN ValidateAnalysis(out.analysis[1]).raised
                     ELSE FALSE]

\* the call returns or raises
ParseCall ==
    /\ call.fn \in {"google_vision", "ocrspace", "paddleocr"}
    /\ call.ret = <<>>
    /\ call' = [call EXCEPT !.ret = <<Parsed(call.fn, call.arg[1])>>]
    /\ UNCHANGED <<settings, PADDLEOCR_AVAILABLE, analyzers, files, db,
                   next_id, now, trace, reviews, system_config, req>>

ParseNext == ParseCall

ParseSpec == ParseInit /\ [][ParseNext]_vars

\* the total markers of each parser
Markers(fn) ==
    CASE fn = "google_vision" -> GoogleKeywords
      [] fn = "ocrspace" -> OCRSpaceKeywords
      [] fn = "paddleocr" -> {"total", "importe", "suma"}

\* the lines that hold a total marker and a decimal with two fractional
\* digits, and the last such decimal of a line, in cents
TotalLineIndexes(fn, text) ==
    {i \in 1..Len(text) :
        /\ \E kw \in Markers(fn) : HasKw(text[i], kw)
        /\ \E k \in 1..Len(text[i]) : text[i][k].t = "dec" /\ text[i][k].nd = 2}

LastDecimal(toks) ==
    LET hits == {k \in 1..Len(toks) : toks[k].t = "dec" /\ toks[k].nd = 2}
        k == CHOOSE h \in hits : \A g \in hits : g <= h
    IN  toks[k].ip * 100 + toks[k].fp

\* C23: in each of the three OCR-driven parsers, total_amount is taken from
\* the first line, in input order, that contains a total marker: it is the
\* last decimal with two fractional digits on that line, and the lines after
\* it do not change it.
C23_TotalFromFirstMarkerLine ==
    (call.fn \in {"google_vision", "ocrspace", "paddleocr"} /\ call.ret # <<>>
     /\ TotalLineIndexes(call.fn, call.arg[1]) # {})
    => LET text == call.arg[1]
           hits == TotalLineIndexes(call.fn, text)
           first == CHOOSE h \in hits : \A g \in hits : h <= g
       IN  /\ call.ret[1].out.ok
           /\ call.ret[1].out.analysis[1].total_amount = LastDecimal(text[first])

\* the date tokens of a text in reading order that parse under the formats
ParsableDates(text) ==
    {<<i, k>> \in (1..Len(text)) \X (1..3) :
        /\ k <= Len(text[i])
        /\ text[i][k].t = "date"
        /\ TryFormats(text[i][k], 1) # <<>>}

\* C24: in the remote-text parsers, purchase_date is the first date, scanning
\* all lines in order, whose date-shaped substring parses under the format
\* list; it is today's date only if no line holds a date-shaped substring
\* that parses.
C24_FirstParsableDate ==
    (call.fn \in {"google_vision", "ocrspace"} /\ call.ret # <<>>)
    => LET text == call.arg[1]
           dates == ParsableDates(text)
           first == CHOOSE p \in dates :
                       \A q \in dates : p[1] < q[1] \/ (p[1] = q[1] /\ p[2] <= q[2])
           purchase_date == call.ret[1].out.analysis[1].purchase_date
       IN  IF dates = {} THEN purchase_date = Isoformat(Today)
           ELSE purchase_date
                  = Isoformat(TryFormats(text[first[1]][first[2]], 1)[1])

\* C25: for both remote-text backends, when no total is detected in the
\* text, _parse_receipt_text returns a receipt with one placeholder item and
\* total_amount = 0.01 (one cent), and validate_analysis on it does not raise.
C25_PlaceholderPassesValidation ==
    (call.fn \in {"google_vision", "ocrspace"} /\ call.ret # <<>>
     /\ \A i \in 1..Len(call.arg[1]) :
          ~(/\ \E kw \in Markers(call.fn) : HasKw(call.arg[1][i], kw)
            /\ \E k \in 1..Len(call.arg[1][i]) : call.arg[1][i][k].t = "dec"))
    => /\ call.ret[1].out.ok
       /\ Len(call.ret[1].out.analysis[1].items) = 1
       /\ call.ret[1].out.analysis[1].total_amount = 1
       /\ ~call.ret[1].invalid

(***************************************************************************)
(* Properties of the items of the local OCR parser.                        *)
(***************************************************************************)
\* the line ends in a price, its confidence exceeds the threshold, and the
\* text before the price is neither purely numeric nor on a header or total
\* keyword line
Acceptable(line) ==
    LET toks == line.toks
        n == Len(toks)
        k == IF n >= 1 /\ toks[n].t = "word" /\ toks[n].s = "EUR"
             THEN n - 1 ELSE n
    IN  /\ k >= 1 /\ toks[k].t = "dec" /\ toks[k].nd = 2
        /\ line.conf > 60
        /\ ~(k = 2 /\ toks[1].t = "int")
        /\ \A i \in 1..n : toks[i].t = "word" =>
             WordInfo(toks[i].s).kws \cap HeaderKeywords = {}

MaxSegments == 3

Prose == [kind |-> "prose", data |-> <<>>]
OpenBrace == [kind |-> "{", data |-> <<>>]
CloseBrace == [kind |-> "}", data |-> <<>>]
JsonObject(data) == [kind |-> "object", data |-> <<data>>]

Segments == {Prose, OpenBrace, CloseBrace} \cup {JsonObject(d) : d \in ClaudeData}

Replies == UNION {[1..n -> Segments] : n \in 1..MaxSegments}

\* response_text.find('{') and response_text.rfind('}') + 1, as the segments
\* the span starts and ends with; 0 for -1
JsonStart(reply) ==
    LET hits == {i \in 1..Len(reply) : reply[i].kind \in {"{", "object"}}
    IN  IF hits = {} THEN 0 ELSE CHOOSE h \in hits : \A g \in hits : h <= g

JsonEnd(reply) ==
    LET hits == {i \in 1..Len(reply) : reply[i].kind \in {"}", "object"}}
    IN  IF hits = {} THEN 0 ELSE CHOOSE h \in hits : \A g \in hits : g <= h

\* json.loads(response_text[json_start:json_end]): the data, or <<>> for
\* JSONDecodeError; only the text of one object alone is a JSON document
JsonLoads(reply, start, end) ==
    IF start = end /\ reply[start].kind = "object" THEN reply[start].data
    ELSE <<>>

\* _parse_claude_response / _parse_grok_response: the two differ in the
\* class of the exception they raise
ParseResponse(fn, reply) ==
    LET raise(msg) == Failure(IF fn = "claude" THEN ClaudeError(msg)
                              ELSE VisionError(msg))
        data == JsonLoads(reply, JsonStart(reply), JsonEnd(reply))
    IN  IF JsonStart(reply) = 0 \/ JsonEnd(reply) = 0
        THEN raise("No JSON object found")
        ELSE IF data = <<>> THEN raise("Invalid JSON response")
        ELSE IF ValidateDateFormat(data[1].purchase_date)
        THEN raise("Failed to parse response")
        ELSE Success(data[1])

ReplyInit ==
    /\ Quiet
    /\ call \in [fn : {"claude", "grok"},
                 arg : {<<reply>> : reply \in Replies},
                 ret : {<<>>}]

\* the call returns or raises
ReplyCall ==
    /\ call.fn \in {"claude", "grok"}
    /\ call.ret = <<>>
    /\ call' = [call EXCEPT !.ret = <<ParseResponse(call.fn, call.arg[1])>>]
    /\ UNCHANGED <<settings, PADDLEOCR_AVAILABLE, analyzers, files, db,
                   next_id, now, trace, reviews, system_config, req>>

ReplyNext == ReplyCall

ReplySpec == ReplyInit /\ [][ReplyNext]_vars

\* the objects of a reply, and whether every brace before the first one
\* belongs to it
ObjectIndexes(reply) == {i \in 1..Len(reply) : reply[i].kind = "object"}

FirstObject(reply) ==
    CHOOSE h \in ObjectIndexes(reply) : \A g \in ObjectIndexes(reply) : h <= g

\* C27: for every reply that holds a valid JSON object surrounded by prose,
\* the generative backend parses the first balanced {...} span of the reply,
\* also when the prose after the object holds further '{' or '}'; a reply
\* with no parsable object yields a recoverable analysis error (one the
\* fallback is tried for: a VisionAnalyzerError).
C27_FirstBalancedSpanParsed ==
    (call.fn \in {"claude", "grok"} /\ call.ret # <<>>)
    => LET reply == call.arg[1]
           out == call.ret[1]
       IN  /\ (/\ ObjectIndexes(reply) # {}
               /\ \A i \in 1..(FirstObject(reply) - 1) : reply[i].kind = "prose"
               /\ ~ValidateDateFormat(
                      reply[FirstObject(reply)].data[1].purchase_date))
              => /\ out.ok
                 /\ out.analysis = reply[FirstObject(reply)].data
           /\ ObjectIndexes(reply) = {}
              => /\ ~out.ok
                 /\ out.error[1].kind = "VisionAnalyzerError"

(***************************************************************************)
(* Two upload requests of one user served by one event loop.  A coroutine  *)
(* runs until it awaits: at file.read(), and inside the OCR.space backend  *)
(* (the only analyze_receipt that awaits I/O); every other stretch of      *)
(* upload_and_analyze_receipt runs without another request in between.     *)
(***************************************************************************)
\* request o is not in the middle of a stretch of synchronous code
Yielded(o) ==
    \/ req[o].pc \in {"idle", "read", "done"}
    \/ req[o].pc = "await_primary" /\ settings.vision_provider = "ocrspace"

\* the event loop can run request r
Turn(r) == \A o \in DOMAIN req \ {r} : Yielded(o)

\* user 1 uploads a small JPEG
ConcurrentUploadRequest(r) ==
    /\ Turn(r)
    /\ UploadRequest(r)
    /\ req'[r].user_id = 1
    /\ req'[r].small
    /\ req'[r].filename = "r.jpg"
    /\ req'[r].content \in {2, 3}

\* OCR.space is the configured backend and the Anthropic key is set
ConcurrentInit ==
    /\ settings = [vision_provider |-> "ocrspace", anthropic_api_key |-> TRUE,
                   google_vision_credentials |-> FALSE,
                   ocrspace_api_key |-> TRUE]
    /\ PADDLEOCR_AVAILABLE \in BOOLEAN
    /\ analyzers = {}
    /\ db \in {{}, {EarlierUpload}}
    /\ files = {row.image_path : row \in db}
    /\ next_id = Cardinality(db) + 1
    /\ now = 0
    /\ call = NoCall
    /\ trace = <<>>
    /\ reviews = {}
    /\ system_config = <<>>
    /\ req = [r \in RequestIds |-> IdleRequest]

ConcurrentNext ==
    \/ \E r \in RequestIds : ConcurrentUploadRequest(r)
    \/ \E r \in RequestIds : Turn(r) /\ SaveUploadFile(r)
    \/ \E r \in RequestIds : Turn(r) /\ DuplicateCheck(r)
    \/ \E r \in RequestIds : Turn(r) /\ StartPrimary(r)
    \/ \E r \in RequestIds : Turn(r) /\ PrimaryReturns(r)
    \/ \E r \in RequestIds : Turn(r) /\ StartFallback(r)
    \/ \E r \in RequestIds : Turn(r) /\ FallbackReturns(r)
    \/ \E r \in RequestIds : Turn(r) /\ Persist(r)

ConcurrentSpec == ConcurrentInit /\ [][ConcurrentNext]_vars

\* two stored receipts of one user with the same image hash
SharedHash(rows) ==
    \E a, b \in rows : /\ a.id # b.id
                       /\ a.user_id = b.user_id
                       /\ a.image_hash = b.image_hash

\* request r fails in this step
FailsNow(r) ==
    /\ req[r].pc # "done"
    /\ req'[r].pc = "done"
    /\ req'[r].result[1] # Ok

\* C28: under any interleaving of concurrent upload_and_analyze_receipt
\* calls by the same user, no two stored receipts of that user share the
\* same image_hash, and a request that fails never removes an image file
\* that a stored receipt references.
C28_NoSharedHashNoLostImage ==
    [][/\ ~SharedHash(db')
       /\ \A r \in DOMAIN req :
            FailsNow(r) => \A row \in db : row.image_path \in files
                                           => row.image_path \in files']_vars

(***************************************************************************)
(* The transaction of an upload and the outcome of the call.               *)
(***************************************************************************)
\* the committed rows the request created (receipt_id is the key the flush
\* gave its receipt)
CreatedBy(r) == {row \in db : req[r].receipt_id # 0 /\ row.id = req[r].receipt_id}

\* C29: a receipt row (with its items) is committed if and only if
\* upload_and_analyze_receipt returns successfully: when the call raises, no
\* receipt created by the request remains in the database, and every
\* committed receipt's image_path is a file that exists when the call ends.
C29_CommittedIffReturned ==
    \A r \in DOMAIN req :
        Done(r) =>
            /\ (req[r].result[1] = Ok) <=> (CreatedBy(r) # {})
            /\ \A row \in db : row.image_path \in files

(***************************************************************************)
(* The order of the input checks and the first backend invocation.         *)
(***************************************************************************)
\* the upload has no file name or an extension that is not allowed
InvalidInput(r) ==
    \/ req[r].filename = ""
    \/ Suffix(req[r].filename) \notin ALLOWED_EXTENSIONS

\* C30: no analysis backend is invoked for an upload that fails input
\* validation (missing filename, disallowed extension, oversized content) or
\* whose content hash is a duplicate for that user: file validation, size
\* check and duplicate check all precede the first backend invocation.
C30_ChecksBeforeBackend ==
    \A r \in DOMAIN req :
        /\ (InvalidInput(r) \/ ~req[r].small \/ HasDuplicate(r))
              => req[r].calls = <<>>
        /\ req[r].calls # <<>> => Checked(r)

\* a duplicate upload was rejected with 409 before any backend was invoked
C30_Witness ==
    \E r \in DOMAIN req :
        /\ Rejected409(r)
        /\ HasDuplicate(r)
        /\ req[r].calls = <<>>

====
